---- MODULE Spec2Model ----
(***************************************************************************)
(* Session correlation layer of the Prewrite extension: the persisted      *)
(* session list, the single SPA dispatch slot and the floating panel's     *)
(* session steps (createSession, handleAutofill, the SPA click handler).   *)
(*                                                                         *)
(* Strings are sequences of one-character strings.  Times are milliseconds *)
(* as returned by Date.now().                                              *)
(***************************************************************************)
EXTENDS Integers, Sequences, FiniteSets, TLC

\* null / undefined of a string (no string of the model equals it)
Null == <<"null">>

\* null / undefined of an object: a session, a dispatch record, a URL
NullRec == [null |-> TRUE]

\* null of a PrewritePageData
NoData == "none"

(***************************************************************************)
(* String primitives                                                       *)
(***************************************************************************)
Lower == <<"a","b","c","d","e","f","g","h","i","j","k","l","m",
           "n","o","p","q","r","s","t","u","v","w","x","y","z">>
Upper == <<"A","B","C","D","E","F","G","H","I","J","K","L","M",
           "N","O","P","Q","R","S","T","U","V","W","X","Y","Z">>
Digits == <<"0","1","2","3","4","5","6","7","8","9">>

IndexOf(seq, c) == IF \E i \in DOMAIN seq : seq[i] = c
                   THEN CHOOSE i \in DOMAIN seq : seq[i] = c
                   ELSE 0

Punctuation == <<" ", "#", "&", "-", ".", "/", ":", "=", "?", "_", "|">>

Alphabet == {Lower[i] : i \in DOMAIN Lower} \cup {Upper[i] : i \in DOMAIN Upper}
            \cup {Digits[i] : i \in DOMAIN Digits} \cup {Punctuation[i] : i \in DOMAIN Punctuation}

\* String.prototype.charCodeAt for the characters the model uses
CharCodes ==
    [c \in Alphabet |->
        IF IndexOf(Lower, c) > 0 THEN 96 + IndexOf(Lower, c)
        ELSE IF IndexOf(Upper, c) > 0 THEN 64 + IndexOf(Upper, c)
        ELSE IF IndexOf(Digits, c) > 0 THEN 47 + IndexOf(Digits, c)
        ELSE CASE c = " " -> 32
               [] c = "#" -> 35
               [] c = "&" -> 38
               [] c = "-" -> 45
               [] c = "." -> 46
               [] c = "/" -> 47
               [] c = ":" -> 58
               [] c = "=" -> 61
               [] c = "?" -> 63
               [] c = "_" -> 95
               [] c = "|" -> 124]

CharCode(c) == CharCodes[c]

LowerOf ==
    [c \in Alphabet |-> IF IndexOf(Upper, c) > 0 THEN Lower[IndexOf(Upper, c)] ELSE c]

\* String.prototype.toLowerCase
ToLowerCase(s) == [i \in DOMAIN s |-> LowerOf[s[i]]]

\* String.prototype.trim (the only white space the model uses is the blank)
RECURSIVE TrimStart(_)
TrimStart(s) == IF s # <<>> /\ Head(s) = " " THEN TrimStart(Tail(s)) ELSE s

RECURSIVE TrimEnd(_)
TrimEnd(s) == IF s # <<>> /\ s[Len(s)] = " " THEN TrimEnd(SubSeq(s, 1, Len(s) - 1)) ELSE s

Trim(s) == TrimEnd(TrimStart(s))

\* Array.prototype.join
RECURSIVE Join(_, _)
Join(parts, sep) ==
    IF parts = <<>> THEN <<>>
    ELSE IF Len(parts) = 1 THEN parts[1]
    ELSE parts[1] \o sep \o Join(Tail(parts), sep)

\* String.prototype.split on a one-character separator
RECURSIVE SplitFrom(_, _, _)
SplitFrom(s, sep, cur) ==
    IF s = <<>> THEN <<cur>>
    ELSE IF Head(s) = sep THEN <<cur>> \o SplitFrom(Tail(s), sep, <<>>)
    ELSE SplitFrom(Tail(s), sep, Append(cur, Head(s)))

Split(s, sep) == SplitFrom(s, sep, <<>>)

\* `x || ''` for a nullable string
OrEmpty(x) == IF x = Null THEN <<>> ELSE x

\* JavaScript truthiness of a nullable string
Truthy(x) == x # Null /\ x # <<>>

(***************************************************************************)
(* generateSessionId: 32-bit rolling hash of the joined key, kept as a     *)
(* pair <<hi, lo>> of 16-bit halves so that the wrap-around of `hash |= 0` *)
(* is computed exactly.                                                    *)
(***************************************************************************)
Half == 65536

\* hash = ((hash << 5) - hash) + char; hash |= 0
HashStep(h, code) ==
    LET t == 31 * h[2] + code
    IN  << (31 * h[1] + (t \div Half)) % Half, t % Half >>

RECURSIVE HashFrom(_, _)
HashFrom(h, s) == IF s = <<>> THEN h ELSE HashFrom(HashStep(h, CharCode(Head(s))), Tail(s))

\* Math.abs of the signed 32-bit value held in <<hi, lo>>
AbsHash(h) ==
    IF h[1] < Half \div 2 THEN h
    ELSE IF h[2] = 0 THEN << Half - h[1], 0 >>
    ELSE << Half - 1 - h[1], Half - h[2] >>

Base36Digits == Digits \o Lower

\* Number.prototype.toString(36) of the non-negative value <<hi, lo>>
RECURSIVE ToBase36(_)
ToBase36(h) ==
    LET r1  == h[1] % 36
        q   == << h[1] \div 36, (r1 * Half + h[2]) \div 36 >>
        rem == (r1 * Half + h[2]) % 36
    IN  IF q = <<0, 0>> THEN << Base36Digits[rem + 1] >>
        ELSE ToBase36(q) \o << Base36Digits[rem + 1] >>

generateSessionId(domain, company, jobTitle, jobIdentifier) ==
    LET raw == Join(<< ToLowerCase(domain),
                       Trim(ToLowerCase(OrEmpty(company))),
                       Trim(ToLowerCase(OrEmpty(jobTitle))),
                       ToLowerCase(jobIdentifier) >>, <<"|">>)
    IN  <<"s","e","s","s","_">> \o ToBase36(AbsHash(HashFrom(<<0, 0>>, raw)))

(***************************************************************************)
(* URL helpers.  A URL is the record `new URL(href)` parses the href into: *)
(* hostname, pathname, the searchParams list of <<key, value>> pairs in    *)
(* document order, and hash ("" or "#fragment").                           *)
(***************************************************************************)
\* lexicographic order on code units, as used by URLSearchParams.sort
RECURSIVE StrLess(_, _)
StrLess(a, b) ==
    IF b = <<>> THEN FALSE
    ELSE IF a = <<>> THEN TRUE
    ELSE IF CharCode(Head(a)) # CharCode(Head(b)) THEN CharCode(Head(a)) < CharCode(Head(b))
    ELSE StrLess(Tail(a), Tail(b))

\* stable insertion of one pair into a list sorted by key
RECURSIVE InsertParam(_, _)
InsertParam(sorted, kv) ==
    IF sorted = <<>> THEN <<kv>>
    ELSE IF StrLess(kv[1], Head(sorted)[1]) THEN <<kv>> \o sorted
    ELSE <<Head(sorted)>> \o InsertParam(Tail(sorted), kv)

\* URLSearchParams.prototype.sort (stable, by key)
RECURSIVE SortParams(_)
SortParams(q) ==
    IF q = <<>> THEN <<>>
    ELSE InsertParam(SortParams(SubSeq(q, 1, Len(q) - 1)), q[Len(q)])

\* URLSearchParams.prototype.toString
SearchToString(q) == Join([i \in DOMAIN q |-> q[i][1] \o <<"=">> \o q[i][2]], <<"&">>)

extractJobIdentifier(url) ==
    LET stripped == IF url.pathname # <<>> /\ url.pathname[Len(url.pathname)] = "/"
                    THEN SubSeq(url.pathname, 1, Len(url.pathname) - 1)
                    ELSE url.pathname
        path     == IF stripped = <<>> THEN <<"/">> ELSE stripped
        query    == SearchToString(SortParams(url.search))
    IN  path \o (IF query # <<>> THEN <<"?">> \o query ELSE <<>>) \o url.hash

(***************************************************************************)
(* Domain helpers                                                          *)
(***************************************************************************)
\* Array.prototype.slice(-n)
LastN(seq, n) == IF Len(seq) <= n THEN seq ELSE SubSeq(seq, Len(seq) - n + 1, Len(seq))

twoPartTlds == { <<"c","o",".","u","k">>, <<"c","o","m",".","a","u">>, <<"c","o",".","i","n">>,
                 <<"c","o",".","j","p">>, <<"c","o","m",".","b","r">>, <<"c","o",".","z","a">>,
                 <<"c","o",".","n","z">> }

\* a getRootDomain that always takes the last two labels
getRootDomainLastTwo(hostname) == Join(LastN(Split(ToLowerCase(hostname), "."), 2), <<".">>)

getRootDomain(hostname) ==
    LET parts   == Split(ToLowerCase(hostname), ".")
        lastTwo == Join(LastN(parts, 2), <<".">>)
    IN  IF lastTwo \in twoPartTlds /\ Len(parts) >= 3
        THEN Join(LastN(parts, 3), <<".">>)
        ELSE lastTwo

doDomainsMatch(domain1, domain2) == getRootDomain(domain1) = getRootDomain(domain2)

(***************************************************************************)
(* Scanned pages (PrewritePageData).  The scans the panels can obtain are  *)
(* drawn from this fixed table, keyed by a page name.                      *)
(***************************************************************************)
HostJobs  == <<"j","o","b","s",".","a","c","m","e",".","c","o","m">>
HostAcme  == <<"a","c","m","e",".","c","o","m">>
HostOther == <<"h","i","r","e",".","o","r","g">>

Url(host, path) == [hostname |-> host, pathname |-> path, search |-> <<>>, hash |-> <<>>]

PageData(url, companies, titles, descriptions, fields, buttons, multi, listing, spa) ==
    [page_url |-> url,
     proposed_company_names |-> companies,
     proposed_job_titles |-> titles,
     proposed_job_descriptions |-> descriptions,
     form_fields |-> fields,
     action_buttons |-> buttons,
     detected_multi_page |-> multi,
     is_job_list_page |-> listing,
     spa_elements |-> spa]

Pages ==
    [n \in {"apply", "step", "post", "list", "other"} |->
        CASE n = "apply" ->
               \* first page of an application form on a sub-domain
               PageData(Url(HostJobs, <<"/","a","p","p","l","y">>),
                        << <<"A","c","m","e">> >>, << <<"D","e","v">> >>, << <<"j","d","1">> >>,
                        <<"f1", "f2">>, <<"NAVIGATION">>, FALSE, FALSE, TRUE)
          [] n = "step" ->
               \* a later step of a form: no metadata on the page
               PageData(Url(HostAcme, <<"/","s","t","e","p">>),
                        <<>>, <<>>, <<>>,
                        <<"f2", "f3">>, <<"PREVIOUS", "NAVIGATION">>, TRUE, FALSE, TRUE)
          [] n = "post" ->
               \* a bare job posting
               PageData(Url(HostAcme, <<"/","j","o","b">>),
                        << <<"A","c","m","e">> >>, << <<"D","e","v">> >>, << <<"j","d","2">> >>,
                        <<>>, <<"NAVIGATION">>, FALSE, FALSE, TRUE)
          [] n = "list" ->
               \* a job listing with a search box
               PageData(Url(HostAcme, <<"/","j","o","b","s">>),
                        << <<"A","c","m","e">> >>, <<>>, <<>>,
                        <<"q">>, <<"NAVIGATION">>, FALSE, TRUE, TRUE)
          [] n = "other" ->
               \* an application form of another company
               PageData(Url(HostOther, <<"/","a","p","p","l","y">>),
                        << <<"H","i","r","e">> >>, <<>>, << <<"j","d","3">> >>,
                        <<"f1">>, <<"SUBMIT">>, FALSE, FALSE, FALSE)]

PageNames == DOMAIN Pages

\* `list[0] || null`
FirstOrNull(list) == IF list # <<>> /\ list[1] # <<>> THEN list[1] ELSE Null

\* `list?.[0]`, with undefined rendered as Null
FirstOf(list) == IF list # <<>> THEN list[1] ELSE Null

\* `urls[0]` of a list of URLs, with undefined rendered as NullRec
FirstUrl(urls) == IF urls # <<>> THEN urls[1] ELSE NullRec

\* the session object both SESSION_ADD senders build from the scan
ScanSession(d, scannedData) ==
    [domain |-> d.page_url.hostname,
     jobIdentifier |-> extractJobIdentifier(d.page_url),
     company |-> FirstOrNull(d.proposed_company_names),
     jobTitle |-> FirstOrNull(d.proposed_job_titles),
     jobDescription |-> FirstOrNull(d.proposed_job_descriptions),
     formFields |-> d.form_fields,
     scannedData |-> scannedData]

\* ScanSession of every page, with and without scannedData (evaluated once)
ScanSessions ==
    [n \in PageNames, withData \in BOOLEAN |->
        ScanSession(Pages[n], IF withData THEN n ELSE NoData)]

IdKey(session) == <<session.domain, session.company, session.jobTitle, session.jobIdentifier>>

\* generateSessionId of every key a scan of the table yields (evaluated once)
SessionIds ==
    [k \in {IdKey(ScanSessions[n, TRUE]) : n \in PageNames} |->
        generateSessionId(k[1], k[2], k[3], k[4])]

\* the `generateSessionId(session.domain, ...)` call of addOrUpdateSession
SessionIdOf(session) == SessionIds[IdKey(session)]

(***************************************************************************)
(* Session store: pure operators on the persisted list                     *)
(***************************************************************************)
SPA_DISPATCH_WINDOW_MS == 30000
MAX_SESSIONS == 10
SESSION_EXPIRY_MS == 3600000

\* Array.prototype.findIndex / find by id, 1-based; 0 when absent
FindIndexById(list, id) ==
    IF \E i \in DOMAIN list : list[i].id = id
    THEN CHOOSE i \in DOMAIN list : list[i].id = id /\ \A j \in 1..(i - 1) : list[j].id # id
    ELSE 0

RemoveAt(list, i) == SubSeq(list, 1, i - 1) \o SubSeq(list, i + 1, Len(list))

\* a slice that keeps the whole list
TakeAll(list, n) == list

\* Array.prototype.slice(0, n)
Take(list, n) == IF Len(list) <= n THEN list ELSE SubSeq(list, 1, n)

\* an addUniqueUrl that drops the URL
addUniqueUrlNever(urls, newUrl) == urls

addUniqueUrl(urls, newUrl) ==
    IF newUrl = NullRec THEN urls
    ELSE IF \E i \in DOMAIN urls : urls[i] = newUrl THEN urls
    ELSE Append(urls, newUrl)

\* `scannedData?.page_url`
PageUrlOf(scannedData) == IF scannedData = NoData THEN NullRec ELSE Pages[scannedData].page_url

\* the filter of cleanExpiredSessions
IsValid(s, t) == t - s.lastAccessedAt < SESSION_EXPIRY_MS

cleanExpiredSessions(list, t) == SelectSeq(list, LAMBDA s : IsValid(s, t))

\* a findIndex that never finds the stored session
ExistingIndexNever(list, id) == 0

\* findIndex of addOrUpdateSession
ExistingIndex(list, id) == FindIndexById(list, id)

\* the merge of an incoming session into the one stored under the same id
MergeExisting(existing, session, parentSessionId, t) ==
    [existing EXCEPT
        !.company = IF Truthy(session.company) THEN session.company ELSE existing.company,
        !.jobTitle = IF Truthy(session.jobTitle) THEN session.jobTitle ELSE existing.jobTitle,
        !.jobDescription = IF Truthy(session.jobDescription) THEN session.jobDescription
                           ELSE existing.jobDescription,
        !.formFields = IF Len(session.formFields) > 0 THEN session.formFields
                       ELSE existing.formFields,
        !.scannedData = IF session.scannedData # NoData THEN session.scannedData
                        ELSE existing.scannedData,
        !.parentSessionId = IF parentSessionId # Null THEN parentSessionId
                            ELSE existing.parentSessionId,
        !.pageUrls = addUniqueUrl(existing.pageUrls, PageUrlOf(session.scannedData)),
        !.lastAccessedAt = t]

\* the session a first scan creates
NewSession(session, id, parentSessionId, t) ==
    [id |-> id,
     domain |-> session.domain,
     jobIdentifier |-> session.jobIdentifier,
     company |-> session.company,
     jobTitle |-> session.jobTitle,
     jobDescription |-> session.jobDescription,
     formFields |-> session.formFields,
     scannedData |-> session.scannedData,
     parentSessionId |-> IF Truthy(parentSessionId) THEN parentSessionId ELSE Null,
     pageUrls |-> IF PageUrlOf(session.scannedData) # NullRec
                  THEN <<PageUrlOf(session.scannedData)>> ELSE <<>>,
     createdAt |-> t,
     lastAccessedAt |-> t]

\* addOrUpdateSession after its cleanExpiredSessions: the read-modify-write
\* on the list it read
MergeIntoList(list, session, parentSessionId, t) ==
    LET id  == SessionIdOf(session)
        idx == ExistingIndex(list, id)
    IN  IF idx > 0
        THEN LET result == MergeExisting(list[idx], session, parentSessionId, t)
             IN  [sessions |-> <<result>> \o RemoveAt(list, idx), session |-> result]
        ELSE LET result == NewSession(session, id, parentSessionId, t)
             IN  [sessions |-> Take(<<result>> \o list, MAX_SESSIONS), session |-> result]

addOrUpdateSession(list, session, parentSessionId, t) ==
    MergeIntoList(cleanExpiredSessions(list, t), session, parentSessionId, t)

\* legacy wrapper: the message carries no parentSessionId
addSession(list, session, t) == addOrUpdateSession(list, session, Null, t)

linkSession(list, childSessionId, parentSessionId, t) ==
    LET ci == FindIndexById(list, childSessionId)
        pi == FindIndexById(list, parentSessionId)
        l1 == IF ci > 0 THEN [list EXCEPT ![ci].parentSessionId = parentSessionId] ELSE list
    IN  IF ci > 0 /\ pi > 0
        THEN [l1 EXCEPT ![pi].pageUrls = addUniqueUrl(l1[pi].pageUrls, FirstUrl(l1[ci].pageUrls)),
                        ![pi].lastAccessedAt = t]
        ELSE l1

\* the fields of a scan that the session does not hold yet
NewFields(formFields, scanned) ==
    SelectSeq(scanned, LAMBDA f : \A i \in DOMAIN formFields : formFields[i] # f)

updateSessionPageData(list, sessionId, scannedData, t) ==
    LET idx  == FindIndexById(list, sessionId)
        data == Pages[scannedData]
    IN  IF idx = 0 THEN list
        ELSE LET s == list[idx]
             IN [list EXCEPT ![idx] =
                  [s EXCEPT
                     !.scannedData = scannedData,
                     !.formFields = IF Len(data.form_fields) > 0
                                    THEN s.formFields \o NewFields(s.formFields, data.form_fields)
                                    ELSE s.formFields,
                     !.company = IF ~Truthy(s.company) /\ Truthy(FirstOf(data.proposed_company_names))
                                 THEN FirstOf(data.proposed_company_names) ELSE s.company,
                     !.jobTitle = IF ~Truthy(s.jobTitle) /\ Truthy(FirstOf(data.proposed_job_titles))
                                  THEN FirstOf(data.proposed_job_titles) ELSE s.jobTitle,
                     !.jobDescription =
                         IF ~Truthy(s.jobDescription) /\ Truthy(FirstOf(data.proposed_job_descriptions))
                         THEN FirstOf(data.proposed_job_descriptions) ELSE s.jobDescription,
                     !.pageUrls = addUniqueUrl(s.pageUrls, data.page_url),
                     !.lastAccessedAt = t]]

getSession(list, id, t) ==
    LET valid == cleanExpiredSessions(list, t)
        idx   == FindIndexById(valid, id)
    IN  IF idx > 0
        THEN LET touched == [valid EXCEPT ![idx].lastAccessedAt = t]
             IN  [sessions |-> touched, session |-> touched[idx]]
        ELSE [sessions |-> valid, session |-> NullRec]

getSessionByDomain(list, domain, t) ==
    LET valid == cleanExpiredSessions(list, t)
    IN  [sessions |-> valid,
         session |-> IF \E i \in DOMAIN valid : valid[i].domain = domain
                     THEN valid[CHOOSE i \in DOMAIN valid :
                                  /\ valid[i].domain = domain
                                  /\ \A j \in 1..(i - 1) : valid[j].domain # domain]
                     ELSE NullRec]

getAllSessions(list, t) == cleanExpiredSessions(list, t)

getCurrentSession(list, t) ==
    LET valid == cleanExpiredSessions(list, t)
    IN  [sessions |-> valid, session |-> IF valid # <<>> THEN valid[1] ELSE NullRec]

deleteSession(list, id) == SelectSeq(list, LAMBDA s : s.id # id)

(***************************************************************************)
(* State                                                                   *)
(***************************************************************************)
VARIABLES
    now,              \* Date.now()
    ticks,            \* number of clock advances so far (bounds the run)
    scans,            \* number of scans so far (bounds the run)
    calls,            \* number of Autofill presses and of calls by other contexts so far
    sessions,         \* storage.session[SESSION_KEY]
    spaDispatch,      \* storage.session[SPA_DISPATCH_KEY], NullRec when absent
    data,             \* per tab: the panel's scan result (a page name) or NoData
    pc,               \* per tab: position of the panel's createSession
    currentSessionId, \* per tab: the panel's currentSessionId state
    parentSessionId,  \* per tab: createSession's local parentSessionId
    dispatchResponse, \* per tab: createSession's local dispatchResponse.dispatch
    call,             \* per tab: the addOrUpdateSession call in flight in the background
    arg,              \* the arguments of the function under test
    ret,              \* what the function under test returned, NullRec before it ran
    retry,            \* the activation of the content script's scanWithRetry
    autofill,         \* the panel's autofill state and the form of the page
    job               \* the background's asynchronous generation job

\* the state outside the session manager and the panels' createSession
AuxVars == <<arg, ret, retry, autofill, job>>

(***************************************************************************)
(* SPA dispatch slot                                                       *)
(***************************************************************************)
\* a save that keeps the record already stored
saveSpaDispatchKeepFirst(domain, sessionId, t) ==
    IF spaDispatch # NullRec THEN spaDispatch
    ELSE [domain |-> domain, sessionId |-> sessionId, timestamp |-> t]

saveSpaDispatch(domain, sessionId, t) ==
    [domain |-> domain, sessionId |-> sessionId, timestamp |-> t]

\* a window that closes one millisecond early
DispatchStaleEarly(stored, domain, t) ==
    t - stored.timestamp >= SPA_DISPATCH_WINDOW_MS \/ ~doDomainsMatch(stored.domain, domain)

\* the test of getSpaDispatch that discards the stored record
DispatchStale(stored, domain, t) ==
    t - stored.timestamp > SPA_DISPATCH_WINDOW_MS \/ ~doDomainsMatch(stored.domain, domain)

\* returns the slot after the call and the value handed to the caller
getSpaDispatch(slot, domain, t) ==
    IF slot = NullRec THEN [slot |-> NullRec, dispatch |-> NullRec]
    ELSE IF DispatchStale(slot, domain, t) THEN [slot |-> NullRec, dispatch |-> NullRec]
    ELSE [slot |-> slot, dispatch |-> slot]

clearSpaDispatch(slot) == NullRec

(***************************************************************************)
(* The background's handlers of the four messages below are not part of    *)
(* the source at hand.  Each is taken to pass its message to the session   *)
(* manager function it names and to reply with that function's result, as  *)
(* the handlers of the SESSION_ messages do.                               *)
(***************************************************************************)
SPA_DISPATCH_SAVE(domain, sessionId, t) == saveSpaDispatch(domain, sessionId, t)

SPA_DISPATCH_GET(slot, domain, t) == getSpaDispatch(slot, domain, t)

SPA_DISPATCH_CLEAR(slot) == clearSpaDispatch(slot)

SESSION_UPDATE_DATA(list, sessionId, scannedData, t) ==
    updateSessionPageData(list, sessionId, scannedData, t)

vars == <<now, ticks, scans, calls, sessions, spaDispatch, data, pc, currentSessionId, parentSessionId,
          dispatchResponse, call, AuxVars>>

Tabs == {"t1", "t2"}

\* the clock advances a run may take, in milliseconds
TickSteps == {30000, 3600000}

\* clock advances (and later clicks) per run
MaxTicks == 2

\* scans per run of the one-panel specification
MaxScans == 2

\* scans per run of the two-tab specifications
MaxTabScans == 3

\* Autofill presses and SESSION_GET / SESSION_DELETE of other contexts per run
MaxCalls == 1

NoCall == [at |-> "none"]

\* the panels before their first scan, no call in flight, the clock at 0
PanelInit ==
    /\ now = 0
    /\ ticks = 0
    /\ scans = 0
    /\ calls = 0
    /\ spaDispatch = NullRec
    /\ data = [p \in Tabs |-> NoData]
    /\ pc = [p \in Tabs |-> "idle"]
    /\ currentSessionId = [p \in Tabs |-> Null]
    /\ parentSessionId = [p \in Tabs |-> Null]
    /\ dispatchResponse = [p \in Tabs |-> NullRec]
    /\ call = [p \in Tabs |-> NoCall]

\* nothing under test, no scanWithRetry running, no autofill requested
AuxInit ==
    /\ arg = NullRec
    /\ ret = NullRec
    /\ retry = NoCall
    /\ autofill = NoCall
    /\ job = NoCall

Init ==
    /\ PanelInit
    /\ sessions = <<>>
    /\ AuxInit

(***************************************************************************)
(* The floating panel                                                      *)
(***************************************************************************)
isJobListPage(d) == d.is_job_list_page

isSessionless(d) ==
    /\ Len(d.form_fields) = 0
    /\ ~d.detected_multi_page
    /\ ~(\E i \in DOMAIN d.action_buttons : d.action_buttons[i] = "PREVIOUS")
    /\ Len(d.proposed_job_descriptions) > 0

\* the guard of the auto-session effect
RunsCreateSession(d) == ~isJobListPage(d) /\ ~isSessionless(d)

\* window.location.hostname of the page a tab shows
Hostname(p) == Pages[data[p]].page_url.hostname

\* A page load or a URL change followed by the scan: the panel state is reset
\* and the auto-session effect starts createSession on a qualifying scan.
Navigate(p, n) ==
    /\ pc[p] \in {"idle", "done"}
    /\ scans' = scans + 1
    /\ data' = [data EXCEPT ![p] = n]
    /\ currentSessionId' = [currentSessionId EXCEPT ![p] = Null]
    /\ parentSessionId' = [parentSessionId EXCEPT ![p] = Null]
    /\ dispatchResponse' = [dispatchResponse EXCEPT ![p] = NullRec]
    /\ pc' = [pc EXCEPT ![p] = IF RunsCreateSession(Pages[n]) THEN "get" ELSE "idle"]
    /\ UNCHANGED <<now, ticks, calls, sessions, spaDispatch, call, AuxVars>>

\* createSession: SPA_DISPATCH_GET and the branch on its response
DispatchGet(p) ==
    /\ pc[p] = "get"
    /\ LET r == SPA_DISPATCH_GET(spaDispatch, Hostname(p), now)
       IN  /\ spaDispatch' = r.slot
           /\ dispatchResponse' = [dispatchResponse EXCEPT ![p] = r.dispatch]
           /\ IF r.dispatch # NullRec
              THEN /\ parentSessionId' = [parentSessionId EXCEPT ![p] = r.dispatch.sessionId]
                   /\ pc' = [pc EXCEPT ![p] = "clear"]
              ELSE /\ UNCHANGED parentSessionId
                   /\ pc' = [pc EXCEPT ![p] = "add"]
    /\ UNCHANGED <<now, ticks, scans, calls, sessions, data, currentSessionId, call, AuxVars>>

\* createSession: SPA_DISPATCH_CLEAR
DispatchClear(p) ==
    /\ pc[p] = "clear"
    /\ spaDispatch' = SPA_DISPATCH_CLEAR(spaDispatch)
    /\ pc' = [pc EXCEPT ![p] = "update"]
    /\ UNCHANGED <<now, ticks, scans, calls, sessions, data, currentSessionId, parentSessionId, dispatchResponse, call, AuxVars>>

\* createSession: SESSION_UPDATE_DATA on the parent, then setCurrentSessionId
SessionUpdateData(p) ==
    /\ pc[p] = "update"
    /\ sessions' = SESSION_UPDATE_DATA(sessions, parentSessionId[p], data[p], now)
    /\ currentSessionId' = [currentSessionId EXCEPT ![p] = parentSessionId[p]]
    /\ pc' = [pc EXCEPT ![p] = "fetch"]
    /\ UNCHANGED <<now, ticks, scans, calls, spaDispatch, data, parentSessionId, dispatchResponse, call, AuxVars>>

\* createSession: SESSION_ADD, then setCurrentSessionId with the reply
SessionAdd(p) ==
    /\ pc[p] = "add"
    /\ LET r == addSession(sessions, ScanSessions[data[p], TRUE], now)
       IN  /\ sessions' = r.sessions
           /\ currentSessionId' = [currentSessionId EXCEPT ![p] = r.session.id]
    /\ pc' = [pc EXCEPT ![p] = "fetch"]
    /\ UNCHANGED <<now, ticks, scans, calls, spaDispatch, data, parentSessionId, dispatchResponse, call, AuxVars>>

\* the effect on currentSessionId: SESSION_GET
FetchSession(p) ==
    /\ pc[p] = "fetch"
    /\ sessions' = getSession(sessions, currentSessionId[p], now).sessions
    /\ pc' = [pc EXCEPT ![p] = "done"]
    /\ UNCHANGED <<now, ticks, scans, calls, spaDispatch, data, currentSessionId, parentSessionId, dispatchResponse, call, AuxVars>>

\* click on an application-flow element: SPA_DISPATCH_SAVE
SpaClickAt(p, t) ==
    /\ data[p] # NoData
    /\ Len(Pages[data[p]].action_buttons) > 0
    /\ RunsCreateSession(Pages[data[p]])
    /\ Pages[data[p]].spa_elements
    /\ currentSessionId[p] # Null
    /\ spaDispatch' = SPA_DISPATCH_SAVE(Hostname(p), currentSessionId[p], t)
    /\ UNCHANGED <<scans, calls, sessions, data, pc, currentSessionId, parentSessionId, dispatchResponse, call, AuxVars>>

\* a click at the present reading of the clock
SpaClick(p) == SpaClickAt(p, now) /\ UNCHANGED <<now, ticks>>

\* milliseconds between two clicks of the two-tab specification
ClickGap == 1000

\* a click later than every click before it, so that the timestamp tells
\* the saved dispatches apart
SpaClickLater(p) ==
    /\ ticks < MaxTicks
    /\ ticks' = ticks + 1
    /\ now' = now + ClickGap
    /\ SpaClickAt(p, now + ClickGap)

\* handleAutofill up to its first message: SESSION_ADD without scannedData.
\* The Autofill button is rendered only when the scan has form fields.
AutofillSessionAdd(p) ==
    /\ calls < MaxCalls
    /\ calls' = calls + 1
    /\ data[p] # NoData
    /\ Len(Pages[data[p]].form_fields) > 0
    /\ sessions' = addSession(sessions, ScanSessions[data[p], FALSE], now).sessions
    /\ UNCHANGED <<now, ticks, scans, spaDispatch, data, pc, currentSessionId, parentSessionId, dispatchResponse, call, AuxVars>>

(***************************************************************************)
(* Other contexts: the popup (SESSION_LIST, SESSION_DELETE) and the panels *)
(* of other tabs (SESSION_GET).  linkSession has no caller in the message  *)
(* handlers and stays an operator.                                         *)
(***************************************************************************)
StoredIds == {sessions[i].id : i \in DOMAIN sessions}

PanelVars == <<data, pc, currentSessionId, parentSessionId, dispatchResponse, call>>

SessionList ==
    /\ sessions' = getAllSessions(sessions, now)
    /\ UNCHANGED <<now, ticks, scans, calls, spaDispatch, PanelVars, AuxVars>>

SessionCurrent ==
    /\ sessions' = getCurrentSession(sessions, now).sessions
    /\ UNCHANGED <<now, ticks, scans, calls, spaDispatch, PanelVars, AuxVars>>

SessionGetByDomain(d) ==
    /\ sessions' = getSessionByDomain(sessions, d, now).sessions
    /\ UNCHANGED <<now, ticks, scans, calls, spaDispatch, PanelVars, AuxVars>>

SessionGet(id) ==
    /\ calls < MaxCalls
    /\ calls' = calls + 1
    /\ sessions' = getSession(sessions, id, now).sessions
    /\ UNCHANGED <<now, ticks, scans, spaDispatch, PanelVars, AuxVars>>

SessionDelete(id) ==
    /\ calls < MaxCalls
    /\ calls' = calls + 1
    /\ sessions' = deleteSession(sessions, id)
    /\ UNCHANGED <<now, ticks, scans, spaDispatch, PanelVars, AuxVars>>

\* the clock advances between panel events, not inside createSession's
\* exchange of messages with the background
Quiescent == \A p \in Tabs : pc[p] \in {"idle", "done"}

Tick(step) ==
    /\ ticks < MaxTicks
    /\ Quiescent
    /\ now' = now + step
    /\ ticks' = ticks + 1
    /\ UNCHANGED <<scans, calls, sessions, spaDispatch, data, pc, currentSessionId, parentSessionId, dispatchResponse, call, AuxVars>>

(***************************************************************************)
(* addOrUpdateSession at the grain of its awaits: each storage read and    *)
(* each storage write is a step of its own, so that the calls of two       *)
(* contexts interleave between them.                                       *)
(***************************************************************************)
\* calls of addOrUpdateSession per run of the interleaved specification
MaxAdds == 2

\* the scans the interleaved calls carry
AddPages == {"apply", "step"}

\* the parentSessionId arguments tried
ParentChoices == {Null, SessionIdOf(ScanSessions["step", TRUE])}

\* the call and the read of its cleanExpiredSessions
AddOrUpdateStart(p, n, withData, parent) ==
    /\ call[p].at = "none"
    /\ calls < MaxAdds
    /\ calls' = calls + 1
    /\ LET valid == cleanExpiredSessions(sessions, now)
       IN  call' = [call EXCEPT ![p] =
                      [at |-> IF Len(valid) # Len(sessions) THEN "cleanSave" ELSE "read",
                       session |-> ScanSessions[n, withData],
                       parent |-> parent,
                       list |-> valid]]
    /\ UNCHANGED <<now, ticks, scans, sessions, spaDispatch, data, pc, currentSessionId, parentSessionId, dispatchResponse, AuxVars>>

\* the saveSessions(validSessions) of cleanExpiredSessions
CleanExpiredSave(p) ==
    /\ call[p].at = "cleanSave"
    /\ sessions' = call[p].list
    /\ call' = [call EXCEPT ![p].at = "read"]
    /\ UNCHANGED <<now, ticks, scans, calls, spaDispatch, data, pc, currentSessionId, parentSessionId, dispatchResponse, AuxVars>>

\* `let sessions = await getSessions()` and the synchronous merge after it
AddOrUpdateRead(p) ==
    /\ call[p].at = "read"
    /\ call' = [call EXCEPT
                  ![p].at = "save",
                  ![p].list = MergeIntoList(sessions, call[p].session, call[p].parent, now).sessions]
    /\ UNCHANGED <<now, ticks, scans, calls, sessions, spaDispatch, data, pc, currentSessionId, parentSessionId, dispatchResponse, AuxVars>>

\* the final saveSessions(sessions)
AddOrUpdateSave(p) ==
    /\ call[p].at = "save"
    /\ sessions' = call[p].list
    /\ call' = [call EXCEPT ![p] = NoCall]
    /\ UNCHANGED <<now, ticks, scans, calls, spaDispatch, data, pc, currentSessionId, parentSessionId, dispatchResponse, AuxVars>>

PanelStep(p) ==
    \/ DispatchGet(p)
    \/ DispatchClear(p)
    \/ SessionUpdateData(p)
    \/ SessionAdd(p)
    \/ FetchSession(p)

OtherStep ==
    \/ SessionList
    \/ SessionCurrent
    \/ \E d \in {HostJobs, HostAcme, HostOther} : SessionGetByDomain(d)
    \/ \E id \in StoredIds : SessionGet(id)
    \/ \E id \in StoredIds : SessionDelete(id)

\* One panel, the other contexts and the clock
Next ==
    \/ \E n \in PageNames : scans < MaxScans /\ Navigate("t1", n)
    \/ PanelStep("t1")
    \/ SpaClick("t1")
    \/ AutofillSessionAdd("t1")
    \/ OtherStep
    \/ \E step \in TickSteps : Tick(step)

Spec == Init /\ [][Next]_vars

\* The panels of two tabs, interleaved message by message
\* the pages the two tabs visit: the scans that run createSession
TabPages == {n \in PageNames : RunsCreateSession(Pages[n])}

NextTabs ==
    \/ \E p \in Tabs, n \in TabPages : scans < MaxTabScans /\ Navigate(p, n)
    \/ \E p \in Tabs : PanelStep(p)
    \/ \E p \in Tabs : SpaClickLater(p)

SpecTabs == Init /\ [][NextTabs]_vars

\* Two contexts calling addOrUpdateSession, interleaved at its awaits
NextAsync ==
    \/ \E p \in Tabs, n \in AddPages, withData \in BOOLEAN, parent \in ParentChoices :
          AddOrUpdateStart(p, n, withData, parent)
    \/ \E p \in Tabs : CleanExpiredSave(p)
    \/ \E p \in Tabs : AddOrUpdateRead(p)
    \/ \E p \in Tabs : AddOrUpdateSave(p)
    \/ \E step \in TickSteps : Tick(step)

SpecAsync == Init /\ [][NextAsync]_vars

(***************************************************************************)
(* doDomainsMatch applied to a pair of hostnames                           *)
(***************************************************************************)
\* the hostnames tried: sub-domains, two-part public suffixes with and
\* without a label in front, a bare suffix, a single label, an upper-case letter
Hostnames ==
    {<<"j","o","b","s",".","i","n","d","e","e","d",".","c","o","m">>,
     <<"i","n","d","e","e","d",".","c","o","m">>,
     <<"I","n","d","e","e","d",".","c","o","m">>,
     <<"u","k",".","i","n","d","e","e","d",".","c","o","m">>,
     <<"f","o","o",".","c","o",".","u","k">>,
     <<"b","a","r",".","c","o",".","u","k">>,
     <<"a",".","c","o","m","p","a","n","y",".","c","o",".","u","k">>,
     <<"c","o","m","p","a","n","y",".","c","o",".","u","k">>,
     <<"c","o",".","u","k">>,
     <<"j","o","b","s",".","a","c","m","e",".","c","o","m",".","a","u">>,
     <<"a","c","m","e",".","c","o","m",".","a","u">>,
     <<"a","c","m","e",".","c","o","m">>,
     <<"l","o","c","a","l","h","o","s","t">>}

\* everything but arg and ret, as a specification of one function leaves it
PureFrame == <<now, ticks, scans, calls, sessions, spaDispatch, data, pc, currentSessionId,
               parentSessionId, dispatchResponse, call, retry, autofill, job>>

\* the state before a function under test is called
PureInit ==
    /\ PanelInit
    /\ sessions = <<>>
    /\ ret = NullRec
    /\ retry = NoCall
    /\ autofill = NoCall
    /\ job = NoCall

InitDomains ==
    /\ PureInit
    /\ arg \in [domain1 : Hostnames, domain2 : Hostnames]

DomainsMatchCall ==
    /\ ret = NullRec
    /\ ret' = [value |-> doDomainsMatch(arg.domain1, arg.domain2)]
    /\ UNCHANGED <<arg, PureFrame>>

SpecDomains == InitDomains /\ [][DomainsMatchCall]_vars

(***************************************************************************)
(* extractJobIdentifier applied to two URLs                                *)
(***************************************************************************)
\* query parameters per URL
MaxParams == 2

\* the name=value pairs a query is made of
Params == {<<k, v>> : k \in {<<"a">>, <<"b">>}, v \in {<<"1">>, <<"2">>}}

\* the queries tried: up to MaxParams pairs, in document order
Searches == UNION {[1..n -> Params] : n \in 0..MaxParams}

\* the URLs tried: one posting, with and without a trailing slash and a fragment
JobUrls ==
    {[hostname |-> HostAcme, pathname |-> path, search |-> search, hash |-> hash] :
        path \in {<<"/","j","o","b">>, <<"/","j","o","b","/">>},
        search \in Searches,
        hash \in {<<>>, <<"#","a">>}}

InitJobId ==
    /\ PureInit
    /\ arg \in [url1 : JobUrls, url2 : JobUrls]

JobIdentifierCall ==
    /\ ret = NullRec
    /\ ret' = [value1 |-> extractJobIdentifier(arg.url1),
               value2 |-> extractJobIdentifier(arg.url2)]
    /\ UNCHANGED <<arg, PureFrame>>

SpecJobId == InitJobId /\ [][JobIdentifierCall]_vars

(***************************************************************************)
(* scanWithRetry of the content script, at the grain of its awaits: the    *)
(* page may hydrate between two scans, so each scanPage() returns any of   *)
(* the results below.                                                      *)
(***************************************************************************)
\* `maxRetries = 3, delayMs = 500`
maxRetriesDefault == 3
delayMsDefault == 500

\* the form fields a scanPage() may find
ScanResults ==
    {[form_fields |-> f] : f \in {<<>>, <<"f1">>, <<"f1", "f2">>, <<"f1", "f2", "f3">>}}

\* the arguments tried: every retry count up to the default, three delays
RetryArgs == [maxRetries : 0..maxRetriesDefault, delayMs : {0, delayMsDefault, 2 * delayMsDefault}]

\* everything but the clock, the activation of scanWithRetry and its log
RetryFrame == <<ticks, scans, calls, sessions, spaDispatch, data, pc, currentSessionId,
                parentSessionId, dispatchResponse, call, autofill, job>>

InitRetry ==
    /\ PureInit
    /\ arg \in RetryArgs

\* `lastResult.form_fields.length > 0`
FoundFields(result) == Len(result.form_fields) > 0

\* a loop condition that lets one more retry through
LoopContinuesOnceMore(i, maxRetries) == i <= maxRetries

\* `i < maxRetries`
LoopContinues(i, maxRetries) == i < maxRetries

\* the call, its first scanPage() and the immediate return on a non-empty scan
ScanWithRetryCall(result) ==
    /\ retry = NoCall
    /\ retry' = [at |-> IF FoundFields(result) THEN "returned" ELSE "loop",
                 i |-> 0,
                 lastResult |-> result,
                 results |-> <<result>>]
    /\ ret' = IF FoundFields(result) THEN [value |-> result] ELSE ret
    /\ UNCHANGED <<now, arg, RetryFrame>>

\* the loop test passes and the iteration awaits its setTimeout(delayMs)
RetryDelay ==
    /\ retry # NoCall
    /\ retry.at = "loop"
    /\ LoopContinues(retry.i, arg.maxRetries)
    /\ retry' = [retry EXCEPT !.at = "delay"]
    /\ now' = now + arg.delayMs
    /\ UNCHANGED <<arg, ret, RetryFrame>>

\* the scanPage() after the delay: return on a non-empty scan, else i++
RetryScan(result) ==
    /\ retry # NoCall
    /\ retry.at = "delay"
    /\ retry' = [retry EXCEPT
                   !.at = IF FoundFields(result) THEN "returned" ELSE "loop",
                   !.i = IF FoundFields(result) THEN @ ELSE @ + 1,
                   !.lastResult = result,
                   !.results = Append(@, result)]
    /\ ret' = IF FoundFields(result) THEN [value |-> result] ELSE ret
    /\ UNCHANGED <<now, arg, RetryFrame>>

\* the loop test fails: `return lastResult`
RetryReturnLast ==
    /\ retry # NoCall
    /\ retry.at = "loop"
    /\ ~LoopContinues(retry.i, arg.maxRetries)
    /\ retry' = [retry EXCEPT !.at = "returned"]
    /\ ret' = [value |-> retry.lastResult]
    /\ UNCHANGED <<now, arg, RetryFrame>>

NextRetry ==
    \/ \E result \in ScanResults : ScanWithRetryCall(result)
    \/ RetryDelay
    \/ \E result \in ScanResults : RetryScan(result)
    \/ RetryReturnLast

\* every scan returns and every timer fires
SpecRetry == InitRetry /\ [][NextRetry]_vars /\ WF_vars(NextRetry)

(***************************************************************************)
(* The Autofill action: handleAutofill of the panel, the AUTOFILL_REQUEST  *)
(* handler of the background with its polling, and the panel's listener    *)
(* of JOB_COMPLETED and JOB_FAILED.  The backend is outside the program:   *)
(* its answers are drawn from the sets below.                              *)
(***************************************************************************)
\* the pages whose panel renders the Autofill button
FormPages == {n \in PageNames : Len(Pages[n].form_fields) > 0}

FilledValue == <<"A","n","n">>
FileUrl == <<"u","r","l">>

\* the autofill_data initiate may return for a page: nothing, a value or a
\* null for every field, a value for a field the page does not have
AutofillDatas(n) ==
    {<<>>, << [field_id |-> "zz", field_value |-> FilledValue] >>}
    \cup {[i \in DOMAIN Pages[n].form_fields |->
             [field_id |-> Pages[n].form_fields[i], field_value |-> v]] : v \in {FilledValue, Null}}

JobIds == {Null, <<"j","1">>}

\* what initiateAutocomplete resolves to, or NullRec when it throws
InitiateOutcomes(n) ==
    {NullRec} \cup {[autofill_data |-> d, job_id |-> j] : d \in AutofillDatas(n), j \in JobIds}

\* the generated_content and can_apply of a completion result: a resume for
\* a control no page of the table has, a cover letter for the control f1
GeneratedItems(id) == {NullRec, [field_id |-> id, field_value |-> FileUrl]}

CompletionResults ==
    {[resume |-> r, cover_letter |-> c, can_apply |-> a] :
        r \in GeneratedItems("resume"), c \in GeneratedItems("f1"), a \in BOOLEAN}

\* the page's controls before anything is filled in
EmptyForm(n) == [f \in {Pages[n].form_fields[i] : i \in DOMAIN Pages[n].form_fields} |-> <<>>]

\* applyAutofill(autofillFields, selectedFieldIds) on the controls `form`:
\* each selected field with a value whose element exists gets the value
RECURSIVE applyAutofill(_, _, _)
applyAutofill(form, autofillFields, selectedFieldIds) ==
    IF autofillFields = <<>> THEN form
    ELSE LET field == Head(autofillFields)
             skip  == \/ field.field_id \notin selectedFieldIds
                      \/ field.field_value = Null
                      \/ field.field_id \notin DOMAIN form
         IN  applyAutofill(IF skip THEN form
                           ELSE [form EXCEPT ![field.field_id] = field.field_value],
                           Tail(autofillFields), selectedFieldIds)

\* `data?.form_fields?.map(f => f.field_id)`
currentSelectedFields(n) == {Pages[n].form_fields[i] : i \in DOMAIN Pages[n].form_fields}

\* everything but the store, the press budget and the autofill state
AutofillFrame == <<now, ticks, scans, spaDispatch, data, pc, currentSessionId, parentSessionId,
                   dispatchResponse, call, arg, ret, retry, job>>

\* the panel of tab t1 holds the scan of a page with form fields
InitAutofill ==
    /\ now = 0
    /\ ticks = 0
    /\ scans = 0
    /\ calls = 0
    /\ sessions = <<>>
    /\ spaDispatch = NullRec
    /\ data \in {[p \in Tabs |-> IF p = "t1" THEN n ELSE NoData] : n \in FormPages}
    /\ pc = [p \in Tabs |-> "idle"]
    /\ currentSessionId = [p \in Tabs |-> Null]
    /\ parentSessionId = [p \in Tabs |-> Null]
    /\ dispatchResponse = [p \in Tabs |-> NullRec]
    /\ call = [p \in Tabs |-> NoCall]
    /\ AuxInit

\* handleAutofill up to its second message: status 'autofilling',
\* SESSION_ADD without scannedData, AUTOFILL_REQUEST sent
HandleAutofill(p) ==
    /\ autofill = NoCall
    /\ calls < MaxCalls
    /\ calls' = calls + 1
    /\ data[p] # NoData
    /\ Len(Pages[data[p]].form_fields) > 0
    /\ sessions' = addSession(sessions, ScanSessions[data[p], FALSE], now).sessions
    /\ autofill' = [at |-> "request",
                    autofillStatus |-> "autofilling",
                    response |-> NullRec,
                    status |-> "none",
                    jobId |-> Null,
                    autofillData |-> Null,
                    form |-> EmptyForm(data[p])]
    /\ UNCHANGED AutofillFrame

\* the background's AUTOFILL_REQUEST: initiateAutocomplete and the reply;
\* with a job_id the polling starts
AutofillRequest(p, outcome) ==
    /\ autofill # NoCall
    /\ autofill.at = "request"
    /\ autofill' = [autofill EXCEPT
                      !.at = "reply",
                      !.response = outcome,
                      !.status = IF outcome = NullRec THEN "error"
                                 ELSE IF outcome.job_id # Null THEN "processing"
                                 ELSE "complete"]
    /\ UNCHANGED <<calls, sessions, AutofillFrame>>

\* handleAutofill after the reply
HandleAutofillReply(p) ==
    /\ autofill # NoCall
    /\ autofill.at = "reply"
    /\ autofill' =
          IF autofill.status = "error"
          THEN [autofill EXCEPT !.at = "done", !.autofillStatus = "error"]
          ELSE IF autofill.status = "processing"
          THEN [autofill EXCEPT !.at = "polling", !.autofillStatus = "generating",
                                !.jobId = autofill.response.job_id]
          ELSE [autofill EXCEPT
                  !.at = "done",
                  !.autofillStatus = "complete",
                  !.autofillData = autofill.response.autofill_data,
                  !.form = applyAutofill(autofill.form, autofill.response.autofill_data,
                                         currentSelectedFields(data[p]))]
    /\ UNCHANGED <<calls, sessions, AutofillFrame>>

\* the fields the JOB_COMPLETED listener builds from generated_content
NewGeneratedFields(result) ==
    (IF result.resume # NullRec THEN <<result.resume>> ELSE <<>>)
    \o (IF result.cover_letter # NullRec THEN <<result.cover_letter>> ELSE <<>>)

\* pollJobResult resolves and the panel's listener handles JOB_COMPLETED
JobCompleted(p, result) ==
    /\ autofill # NoCall
    /\ autofill.at = "polling"
    /\ autofill' = [autofill EXCEPT
                      !.at = "done",
                      !.form = applyAutofill(autofill.form, NewGeneratedFields(result),
                                             currentSelectedFields(data[p])),
                      !.autofillStatus = IF result.can_apply THEN "complete" ELSE "error"]
    /\ UNCHANGED <<calls, sessions, AutofillFrame>>

\* pollJobResult rejects and the panel's listener handles JOB_FAILED
JobFailed(p) ==
    /\ autofill # NoCall
    /\ autofill.at = "polling"
    /\ autofill' = [autofill EXCEPT !.at = "done", !.autofillStatus = "error"]
    /\ UNCHANGED <<calls, sessions, AutofillFrame>>

NextAutofill ==
    \/ HandleAutofill("t1")
    \/ \E outcome \in InitiateOutcomes(data["t1"]) : AutofillRequest("t1", outcome)
    \/ HandleAutofillReply("t1")
    \/ \E result \in CompletionResults : JobCompleted("t1", result)
    \/ JobFailed("t1")

SpecAutofill == InitAutofill /\ [][NextAutofill]_vars

(***************************************************************************)
(* extractFormFields over a document: a list of elements in document       *)
(* order, each with its tag, its id and name attributes ("" when absent),  *)
(* its input type and whether it is an ARIA / contenteditable              *)
(* pseudo-control.  A field id is the list of the parts its template       *)
(* string joins with "-"; an id attribute is a list of one part.           *)
(***************************************************************************)
\* elements per document
MaxElements == 2

\* scans of the unchanged document per run
MaxPageScans == 2

Element(tag, id, name, type, custom) ==
    [tag |-> tag, id |-> id, name |-> name, type |-> type, custom |-> custom]

\* the elements a document is made of
Elements ==
    {Element("input", "email", "email", "text", FALSE),
     Element("input", "", "phone", "text", FALSE),
     Element("input", "", "", "text", FALSE),
     Element("input", "", "", "hidden", FALSE),
     Element("select", "", "", "", FALSE),
     Element("div", "bio", "", "", TRUE),
     Element("div", "", "", "", TRUE)}

Documents == UNION {[1..n -> Elements] : n \in 0..MaxElements}

\* what Math.random().toString(36).slice(2, 8) may give
RandomIds == {"k3x9qa", "p0w2zm"}

\* the decimal digits of an index
IndexToString(index) == Digits[index + 1]

\* `Array.from(document.querySelectorAll(element.tagName)).indexOf(element)`
IndexAmongTag(doc, i) == Cardinality({j \in 1..(i - 1) : doc[j].tag = doc[i].tag})

generateFieldId(doc, i) ==
    <<"prewrite", doc[i].tag,
      IF doc[i].name # "" THEN doc[i].name ELSE IndexToString(IndexAmongTag(doc, i))>>

\* `querySelectorAll('input, select, textarea')`
IsFormElement(element) == element.tag \in {"input", "select", "textarea"}

\* the inputs processFormElement returns null for
IsSkippedInput(element) ==
    element.tag = "input" /\ element.type \in {"hidden", "submit", "button", "reset", "image"}

processFormElement(doc, i) ==
    [field_id |-> IF doc[i].id # "" THEN <<doc[i].id>> ELSE generateFieldId(doc, i),
     field_name |-> doc[i].name]

processCustomElement(doc, i, rand) ==
    [field_id |-> IF doc[i].id # "" THEN <<doc[i].id>> ELSE <<"prewrite", "custom", rand[i]>>,
     field_name |-> doc[i].name]

\* the indexes of a document that satisfy a test, in document order
IndexesWhere(doc, Test(_)) == SelectSeq([i \in 1..Len(doc) |-> i], LAMBDA i : Test(doc[i]))

\* extractFormFields(document), rand[i] being the string Math.random gives
\* when processCustomElement draws one for element i
extractFormFields(doc, rand) ==
    LET formElements == IndexesWhere(doc, LAMBDA e : IsFormElement(e) /\ ~IsSkippedInput(e))
        customInputs == IndexesWhere(doc, LAMBDA e : e.custom /\ ~IsFormElement(e))
    IN  [k \in 1..Len(formElements) |-> processFormElement(doc, formElements[k])]
        \o [k \in 1..Len(customInputs) |-> processCustomElement(doc, customInputs[k], rand)]

InitScan ==
    /\ PureInit
    /\ arg \in [document : Documents]

\* one scan of the document; ret collects the results of the scans so far
ScanDocument ==
    /\ scans < MaxPageScans
    /\ scans' = scans + 1
    /\ \E rand \in [1..Len(arg.document) -> RandomIds] :
          ret' = [results |-> (IF ret = NullRec THEN <<>> ELSE ret.results)
                               \o <<extractFormFields(arg.document, rand)>>]
    /\ UNCHANGED <<now, ticks, calls, sessions, spaDispatch, data, pc, currentSessionId,
                   parentSessionId, dispatchResponse, call, arg, retry, autofill, job>>

SpecScan == InitScan /\ [][ScanDocument]_vars

(***************************************************************************)
(* The session manager called operation by operation: each step is one     *)
(* whole call of an exported function, logged in arg with its result in    *)
(* ret.                                                                    *)
(***************************************************************************)
\* calls per run of the store specification
MaxOps == 3

\* the scans the calls carry
StorePages == {"apply", "step", "other"}

\* everything but the store, the call budget and the log
StoreFrame == <<now, ticks, scans, spaDispatch, data, pc, currentSessionId, parentSessionId,
                dispatchResponse, call, retry, autofill, job>>

\* addSession(session) of a scan, with scannedData (the automatic step) or
\* without it (handleAutofill)
StoreAdd(n, withData) ==
    /\ calls < MaxOps
    /\ calls' = calls + 1
    /\ LET r == addSession(sessions, ScanSessions[n, withData], now)
       IN  /\ sessions' = r.sessions
           /\ ret' = r.session
    /\ arg' = [op |-> "addSession", session |-> ScanSessions[n, withData]]
    /\ UNCHANGED StoreFrame

\* updateSessionPageData(sessionId, scannedData)
StoreUpdate(id, n) ==
    /\ calls < MaxOps
    /\ calls' = calls + 1
    /\ sessions' = updateSessionPageData(sessions, id, n, now)
    /\ ret' = NullRec
    /\ arg' = [op |-> "updateSessionPageData", sessionId |-> id, scannedData |-> n]
    /\ UNCHANGED StoreFrame

NextStore ==
    \/ \E n \in StorePages, withData \in BOOLEAN : StoreAdd(n, withData)
    \/ \E id \in StoredIds, n \in StorePages : StoreUpdate(id, n)

SpecStore == Init /\ [][NextStore]_vars

(***************************************************************************)
(* The background's handleMessage for the session messages, over a         *)
(* storage whose get or set may reject.  getSessions and saveSessions      *)
(* await the storage call with no try/catch, so a rejection leaves the     *)
(* session manager through every caller up to handleMessage's catch.       *)
(***************************************************************************)
\* the storage call of the operation that rejects, if any
StorageFaults == {"none", "get", "set"}

\* the session messages a context sends
SessionMessages ==
    {[type |-> "SESSION_LIST"], [type |-> "SESSION_CURRENT"]}
    \cup {[type |-> "SESSION_GET_BY_DOMAIN", domain |-> d] : d \in {HostJobs, HostOther}}
    \cup {[type |-> "SESSION_ADD", session |-> ScanSessions[n, TRUE]] : n \in StorePages}

\* the operation writes the list (with no session expired, only SESSION_ADD does)
WritesSessions(message) == message.type = "SESSION_ADD"

\* `error instanceof Error ? error.message : 'Unknown error'` of a rejected storage call
StorageErrorMessage == "storage rejected"

\* handleMessage(message, sender, sendResponse): ret is what sendResponse got
handleMessage(message, fault) ==
    /\ calls < MaxOps
    /\ calls' = calls + 1
    /\ fault = "set" => WritesSessions(message)
    /\ arg' = [message |-> message, fault |-> fault]
    /\ IF fault # "none"
       THEN \* the await throws before anything is stored; the outer catch replies
            /\ sessions' = sessions
            /\ ret' = [error |-> StorageErrorMessage]
       ELSE CASE message.type = "SESSION_ADD" ->
                   LET r == addSession(sessions, message.session, now)
                   IN  sessions' = r.sessions /\ ret' = [session |-> r.session]
              [] message.type = "SESSION_LIST" ->
                   /\ sessions' = getAllSessions(sessions, now)
                   /\ ret' = [sessions |-> getAllSessions(sessions, now)]
              [] message.type = "SESSION_CURRENT" ->
                   LET r == getCurrentSession(sessions, now)
                   IN  sessions' = r.sessions /\ ret' = [session |-> r.session]
              [] message.type = "SESSION_GET_BY_DOMAIN" ->
                   LET r == getSessionByDomain(sessions, message.domain, now)
                   IN  sessions' = r.sessions /\ ret' = [session |-> r.session]
    /\ UNCHANGED StoreFrame

NextFault == \E message \in SessionMessages, fault \in StorageFaults : handleMessage(message, fault)

SpecFault == Init /\ [][NextFault]_vars

(***************************************************************************)
(* The store one session short of its capacity: the sessions that          *)
(* MAX_SESSIONS - 1 Autofill presses on postings of another site left.     *)
(***************************************************************************)
\* the session object handleAutofill sends for the k-th posting
FillerScan(k) ==
    [domain |-> HostOther,
     jobIdentifier |-> <<"/","j","o","b","/", Digits[k + 1]>>,
     company |-> <<"H","i","r","e">>,
     jobTitle |-> Null,
     jobDescription |-> Null,
     formFields |-> <<"f1">>,
     scannedData |-> NoData]

\* the list after addSession of FillerScan(MAX_SESSIONS - 1), ..., FillerScan(1) at time 0
FullStore ==
    [k \in 1..(MAX_SESSIONS - 1) |->
        NewSession(FillerScan(k),
                   generateSessionId(FillerScan(k).domain, FillerScan(k).company,
                                     FillerScan(k).jobTitle, FillerScan(k).jobIdentifier),
                   Null, 0)]

InitFull ==
    /\ PanelInit
    /\ sessions = FullStore
    /\ AuxInit

\* Two contexts adding the sessions of their scans to the nearly full store
NextFull ==
    \/ \E p \in Tabs, n \in AddPages : AddOrUpdateStart(p, n, TRUE, Null)
    \/ \E p \in Tabs : CleanExpiredSave(p)
    \/ \E p \in Tabs : AddOrUpdateRead(p)
    \/ \E p \in Tabs : AddOrUpdateSave(p)
    \/ \E step \in TickSteps : Tick(step)

SpecFull == InitFull /\ [][NextFull]_vars

(***************************************************************************)
(* Action buttons: detectActionButtons and classifyButton of               *)
(* lib/scanner/buttonDetector.ts.  A pattern is the list of the tokens of  *)
(* its regular expression: a character, or "WS" for \s*; an alternation or *)
(* an optional character is written as one pattern per alternative.        *)
(***************************************************************************)
SUBMIT_PATTERNS ==
    { <<"s","u","b","m","i","t">>,
      <<"s","a","v","e">>,
      <<"s","e","n","d">>,
      <<"f","i","n","i","s","h">>,
      <<"c","o","m","p","l","e","t","e">>,
      <<"c","o","n","f","i","r","m">> }

NAVIGATION_PATTERNS ==
    { <<"n","e","x","t">>,
      <<"c","o","n","t","i","n","u","e">>,
      <<"p","r","o","c","e","e","d">>,
      <<"a","p","p","l","y">>,
      <<"g","o","WS","t","o">>,
      <<"m","o","v","e","WS","o","n">>,
      <<"a","d","v","a","n","c","e">>,
      <<"f","o","r","w","a","r","d">>,
      <<"s","t","a","r","t">>,
      <<"b","e","g","i","n">>,
      <<"g","e","t","WS","s","t","a","r","t","e","d">>,
      <<"l","e","t","'","s","WS","g","o">>,
      <<"l","e","t","s","WS","g","o">>,
      <<"l","e","t","'","WS","g","o">>,
      <<"l","e","t","WS","g","o">>,
      <<"o","p","e","n">>,
      <<"v","i","e","w">>,
      <<"e","x","p","l","o","r","e">>,
      <<"d","i","s","c","o","v","e","r">>,
      <<"s","e","e","WS","m","o","r","e">>,
      <<"s","e","e","WS","d","e","t","a","i","l","s">>,
      <<"s","e","e","WS","a","l","l">>,
      <<"l","e","a","r","n","WS","m","o","r","e">>,
      <<"r","e","a","d","WS","m","o","r","e">>,
      <<"v","i","s","i","t">>,
      <<"g","o","WS","n","o","w">>,
      <<"t","r","y","WS","n","o","w">>,
      <<"t","r","y","WS","i","t">>,
      <<"s","i","g","n","WS","u","p">>,
      <<"r","e","g","i","s","t","e","r">>,
      <<"j","o","i","n">>,
      <<"a","c","c","e","p","t">>,
      <<"a","g","r","e","e">>,
      <<"e","n","t","e","r">>,
      <<"l","a","u","n","c","h">>,
      <<"t","a","k","e","WS","m","e">>,
      <<"s","h","o","w">>,
      <<"c","l","i","c","k","WS","h","e","r","e">> }

PREVIOUS_PATTERNS ==
    { <<"b","a","c","k">>,
      <<"p","r","e","v","i","o","u","s">>,
      <<"p","r","e","v">>,
      <<"r","e","t","u","r","n">>,
      <<"g","o","WS","b","a","c","k">> }

\* the pattern matches a prefix of the text
RECURSIVE MatchHere(_, _)
MatchHere(pattern, text) ==
    IF pattern = <<>> THEN TRUE
    ELSE IF Head(pattern) = "WS"
    THEN \/ MatchHere(Tail(pattern), text)
         \/ text # <<>> /\ Head(text) = " " /\ MatchHere(pattern, Tail(text))
    ELSE text # <<>> /\ Head(text) = Head(pattern) /\ MatchHere(Tail(pattern), Tail(text))

\* RegExp.prototype.test of an unanchored pattern
RegExpTest(pattern, text) ==
    \E i \in 1..(Len(text) + 1) : MatchHere(pattern, SubSeq(text, i, Len(text)))

\* `for (const pattern of patterns) if (pattern.test(combinedText))`
TestAny(patterns, text) == \E pattern \in patterns : RegExpTest(pattern, text)

\* the type classifyButton gives an element no pattern matches
NoButtonType == "null"

\* tiers tested with the navigation patterns first
ButtonTiersNavigationFirst ==
    << [type |-> "NAVIGATION", patterns |-> NAVIGATION_PATTERNS],
       [type |-> "SUBMIT", patterns |-> SUBMIT_PATTERNS],
       [type |-> "PREVIOUS", patterns |-> PREVIOUS_PATTERNS] >>

\* the three loops of classifyButton, in their order
ButtonTiers ==
    << [type |-> "SUBMIT", patterns |-> SUBMIT_PATTERNS],
       [type |-> "PREVIOUS", patterns |-> PREVIOUS_PATTERNS],
       [type |-> "NAVIGATION", patterns |-> NAVIGATION_PATTERNS] >>

\* the type of the first tier one of whose patterns matches
RECURSIVE FirstTier(_, _)
FirstTier(tiers, combinedText) ==
    IF tiers = <<>> THEN NoButtonType
    ELSE IF TestAny(Head(tiers).patterns, combinedText) THEN Head(tiers).type
    ELSE FirstTier(Tail(tiers), combinedText)

\* `${text.toLowerCase()} ${ariaLabel.toLowerCase()} ${title.toLowerCase()}`
combinedTextOf(el, text) ==
    ToLowerCase(text) \o <<" ">> \o ToLowerCase(el.ariaLabel) \o <<" ">> \o ToLowerCase(el.title)

classifyButton(el, text) == FirstTier(ButtonTiers, combinedTextOf(el, text))

\* textContent?.trim() || value || aria-label || title || ''
getButtonText(el) ==
    IF Trim(el.textContent) # <<>> THEN Trim(el.textContent)
    ELSE IF el.value # <<>> THEN el.value
    ELSE IF el.ariaLabel # <<>> THEN el.ariaLabel
    ELSE el.title

\* the ActionButton pushed for the element at (1-based) position i
ActionButton(elements, i) ==
    [button_id |-> IF elements[i].id # "" THEN <<elements[i].id>>
                   ELSE <<"btn", IndexToString(i - 1)>>,
     button_type |-> classifyButton(elements[i], getButtonText(elements[i])),
     button_text |-> getButtonText(elements[i])]

\* the elements that get a button: those with a text and a type
IsActionButton(el) ==
    getButtonText(el) # <<>> /\ classifyButton(el, getButtonText(el)) # NoButtonType

\* detectActionButtons over the elements its selector finds, in document order
detectActionButtons(elements) ==
    LET kept == SelectSeq([i \in 1..Len(elements) |-> i], LAMBDA i : IsActionButton(elements[i]))
    IN  [k \in 1..Len(kept) |-> ActionButton(elements, kept[k])]

ButtonElement(textContent, value, ariaLabel, title, id) ==
    [textContent |-> textContent, value |-> value, ariaLabel |-> ariaLabel, title |-> title, id |-> id]

\* the visible texts tried
ButtonTexts ==
    { <<"S","u","b","m","i","t"," ","a","n","d"," ","C","o","n","t","i","n","u","e">>,
      <<"S","u","b","m","i","t">>,
      <<"S","a","v","e"," ","&"," ","N","e","x","t">>,
      <<"B","a","c","k">>,
      <<"G","o"," ","B","a","c","k">>,
      <<"P","r","e","v","i","o","u","s"," ","s","t","e","p">>,
      <<"R","e","t","u","r","n"," ","t","o"," ","s","t","a","r","t">>,
      <<"N","e","x","t">>,
      <<"C","o","n","t","i","n","u","e">>,
      <<"A","p","p","l","y"," ","n","o","w">>,
      <<"C","a","n","c","e","l">>,
      <<"H","e","l","p">>,
      <<" "," ","N","e","x","t"," "," ">>,
      <<>> }

\* the elements tried: every text, with and without an aria-label and a title
ButtonElements ==
    {ButtonElement(t, <<>>, a, ti, "") :
        t \in ButtonTexts,
        a \in {<<>>, <<"G","o"," ","b","a","c","k">>, <<"S","u","b","m","i","t"," ","f","o","r","m">>},
        ti \in {<<>>, <<"N","e","x","t">>}}

InitClassify ==
    /\ PureInit
    /\ arg \in [elements : {<<el>> : el \in ButtonElements}]

DetectActionButtonsCall ==
    /\ ret = NullRec
    /\ ret' = [buttons |-> detectActionButtons(arg.elements)]
    /\ UNCHANGED <<arg, PureFrame>>

SpecClassify == InitClassify /\ [][DetectActionButtonsCall]_vars


(***************************************************************************)
(* detectMultiPageForm, in the two builds of the button detector            *)
(***************************************************************************)
\* buttonDetector.ts: some detected button is PREVIOUS or NAVIGATION
detectMultiPageForm(elements) ==
    \E i \in DOMAIN detectActionButtons(elements) :
        detectActionButtons(elements)[i].button_type \in {"PREVIOUS", "NAVIGATION"}

\* the earlier build of the detector (part_012): its own two pattern lists
SUBMIT_PATTERNS_part012 ==
    { <<"s","u","b","m","i","t">>, <<"n","e","x","t">>, <<"c","o","n","t","i","n","u","e">>, <<"s","a","v","e">>, <<"a","p","p","l","y">>, <<"s","e","n","d">>, <<"f","i","n","i","s","h">>, <<"c","o","m","p","l","e","t","e">>, <<"c","o","n","f","i","r","m">>, <<"p","r","o","c","e","e","d">> }

\* type=submit, then the previous patterns, then the submit patterns
classifyButton_part012(text, el) ==
    IF el.type = "submit" THEN "SUBMIT"
    ELSE IF TestAny(PREVIOUS_PATTERNS, ToLowerCase(text) \o <<" ">> \o ToLowerCase(el.ariaLabel))
         THEN "PREVIOUS"
    ELSE IF TestAny(SUBMIT_PATTERNS_part012, ToLowerCase(text) \o <<" ">> \o ToLowerCase(el.ariaLabel))
         THEN "SUBMIT"
    ELSE NoButtonType

\* the types of the buttons the earlier build keeps
buttonTypes_part012(elements) ==
    {classifyButton_part012(Trim(elements[i].textContent), elements[i]) : i \in DOMAIN elements}
        \ {NoButtonType}

\* (hasNext && hasPrevious) || stepIndicators.length > 0 || hasPrevious;
\* the "step X of Y" text only sets estimatedStep
detectMultiPageForm_part012(page) ==
    LET hasNext == "SUBMIT" \in buttonTypes_part012(page.elements)
        hasPrevious == "PREVIOUS" \in buttonTypes_part012(page.elements)
    IN  [isMultiPage |-> (hasNext /\ hasPrevious) \/ page.stepIndicators \/ hasPrevious,
         estimatedStep |-> IF page.stepText THEN page.step ELSE 1]

\* most buttons on a page tried
MaxButtons == 2

\* the controls tried on a page: <button> elements with a visible text only
PageButtons ==
    {[textContent |-> t, value |-> <<>>, ariaLabel |-> <<>>, title |-> <<>>, id |-> "",
      type |-> ""] :
        t \in { <<"N","e","x","t">>, <<"B","a","c","k">>, <<"S","u","b","m","i","t">>, <<"C","a","n","c","e","l">>, <<"A","p","p","l","y"," ","n","o","w">> }}

\* pages: their buttons in document order, whether step-indicator markup is
\* present, and whether the body text holds "step 2 of 3"
ButtonPages ==
    [elements : UNION {[1..n -> PageButtons] : n \in 0..MaxButtons},
     stepIndicators : BOOLEAN, stepText : BOOLEAN, step : {2}]

InitMultiPage ==
    /\ PureInit
    /\ arg \in ButtonPages

DetectMultiPageFormCall ==
    /\ ret = NullRec
    /\ ret' = [isMultiPage |-> detectMultiPageForm(arg.elements),
               part012 |-> detectMultiPageForm_part012(arg)]
    /\ UNCHANGED <<arg, PureFrame>>

SpecMultiPage == InitMultiPage /\ [][DetectMultiPageFormCall]_vars


(***************************************************************************)
(* useScanner: scanAllFrames                                                *)
(***************************************************************************)
\* window.location.href and document.title of the document the hook runs in
HookLocationHref == "chrome-extension://prewrite/popup.html"
HookDocumentTitle == "Prewrite"

\* `${field.field_id}-${field.field_name}-${field.field_label}`
fieldKey(field) ==
    field.field_id \o <<"-">> \o field.field_name \o <<"-">> \o field.field_label

\* the forEach over response.form_fields: a field whose key was seen is skipped
RECURSIVE aggregateFields(_, _)
aggregateFields(acc, fields) ==
    IF fields = <<>> THEN acc
    ELSE IF fieldKey(Head(fields)) \in acc.seenFieldIds
         THEN aggregateFields(acc, Tail(fields))
    ELSE aggregateFields([acc EXCEPT !.seenFieldIds = @ \cup {fieldKey(Head(fields))},
                                     !.allFields = Append(@, Head(fields))],
                         Tail(fields))

\* the forEach over response.action_buttons: a button whose id was seen is skipped
RECURSIVE aggregateButtons(_, _)
aggregateButtons(acc, buttons) ==
    IF buttons = <<>> THEN acc
    ELSE IF Head(buttons).button_id \in acc.seenButtonIds
         THEN aggregateButtons(acc, Tail(buttons))
    ELSE aggregateButtons([acc EXCEPT !.seenButtonIds = @ \cup {Head(buttons).button_id},
                                      !.allButtons = Append(@, Head(buttons))],
                          Tail(buttons))

\* one turn of the loop over the frames: a frame whose sendMessage throws or
\* answers null is skipped
scanFrame(acc, frame) ==
    IF frame.response.kind # "data" THEN acc
    ELSE aggregateButtons(
             aggregateFields(
                 IF frame.frameId = 0 THEN [acc EXCEPT !.mainPageData = frame.response]
                                      ELSE acc,
                 frame.response.data.form_fields),
             frame.response.data.action_buttons)

RECURSIVE scanFrames(_, _)
scanFrames(acc, frames) ==
    IF frames = <<>> THEN acc ELSE scanFrames(scanFrame(acc, Head(frames)), Tail(frames))

\* mainPageData?.x || fallback
MainPageOr(acc, x, fallback) ==
    IF acc.mainPageData.kind = "data" /\ acc.mainPageData.data[x] # ""
    THEN acc.mainPageData.data[x] ELSE fallback

\* mainPageData?.x || [] for the candidate lists (an empty array is truthy)
MainPageList(acc, x) ==
    IF acc.mainPageData.kind = "data" THEN acc.mainPageData.data[x] ELSE <<>>

scanAllFrames(frames) ==
    LET acc == scanFrames([allFields |-> <<>>, allButtons |-> <<>>,
                           mainPageData |-> [kind |-> "null"],
                           seenFieldIds |-> {}, seenButtonIds |-> {}], frames)
    IN  IF frames = <<>> THEN NullRec
        ELSE IF acc.mainPageData.kind = "data" \/ Len(acc.allFields) > 0
        THEN [page_url |-> MainPageOr(acc, "page_url", HookLocationHref),
              page_title |-> MainPageOr(acc, "page_title", HookDocumentTitle),
              proposed_company_names |-> MainPageList(acc, "proposed_company_names"),
              proposed_job_titles |-> MainPageList(acc, "proposed_job_titles"),
              proposed_job_descriptions |-> MainPageList(acc, "proposed_job_descriptions"),
              form_fields |-> acc.allFields,
              action_buttons |-> acc.allButtons,
              form_metadata |->
                  [detected_multi_page |->
                       \E i \in DOMAIN acc.allButtons : acc.allButtons[i].button_type = "PREVIOUS",
                   estimated_step |->
                       IF acc.mainPageData.kind = "data"
                       THEN acc.mainPageData.data.form_metadata.estimated_step ELSE 1]]
        ELSE NullRec

\* most frames in the tab
MaxFrames == 2

FrameName(k) == IF k = 0 THEN "top" ELSE IF k = 1 THEN "frame1" ELSE "frameN"

\* the fields a frame may report
FrameFields ==
    { <<>>,
      << [field_id |-> <<"e","m","a","i","l">>, field_name |-> <<"e","m","a","i","l">>,
          field_label |-> <<"E","m","a","i","l">>] >> }

\* the buttons a frame may report: ids are the element id or btn_<index in the frame>
FrameButtons ==
    { <<>>,
      << [button_id |-> <<"btn", "0">>, button_type |-> "SUBMIT"] >>,
      << [button_id |-> <<"btn", "0">>, button_type |-> "PREVIOUS"] >>,
      << [button_id |-> <<"btn", "1">>, button_type |-> "PREVIOUS"] >> }

\* what frame k answers to SCAN_PAGE: an error, null, or its own scan
FrameResponses(k) ==
    {[kind |-> "throws"], [kind |-> "null"]} \cup
    {[kind |-> "data",
      data |-> [page_url |-> "https://" \o FrameName(k) \o ".example/apply",
                page_title |-> "Title of " \o FrameName(k),
                proposed_company_names |-> <<"Company of " \o FrameName(k)>>,
                proposed_job_titles |-> <<"Job of " \o FrameName(k)>>,
                proposed_job_descriptions |-> <<"Description of " \o FrameName(k)>>,
                form_fields |-> fields,
                action_buttons |-> buttons,
                form_metadata |->
                    [detected_multi_page |->
                         \E i \in DOMAIN buttons : buttons[i].button_type = "PREVIOUS",
                     estimated_step |-> 1]]] :
        fields \in FrameFields, buttons \in FrameButtons}

\* getAllFrames: the top frame (frameId 0) first, then the iframes
FrameLists ==
    UNION { {frames \in [1..n -> [frameId : 0..(n - 1),
                                  response : UNION {FrameResponses(k) : k \in 0..(n - 1)}]] :
                \A i \in 1..n : /\ frames[i].frameId = i - 1
                                /\ frames[i].response \in FrameResponses(i - 1)} :
            n \in 0..MaxFrames }

InitFrames ==
    /\ PureInit
    /\ arg \in [frames : FrameLists]

ScanAllFramesCall ==
    /\ ret = NullRec
    /\ ret' = [value |-> scanAllFrames(arg.frames)]
    /\ UNCHANGED <<arg, PureFrame>>

SpecFrames == InitFrames /\ [][ScanAllFramesCall]_vars


(***************************************************************************)
(* jobListDetector: detectJobListPage                                       *)
(*                                                                         *)
(* score is a JavaScript number.  A number near h/100 is kept as the pair  *)
(* [h, e] standing for h/100 + e/(100 * 2^60): h counts hundredths and e   *)
(* the distance from that decimal, so that the rounding of every += and -= *)
(* to the nearest double is computed, not assumed away.                    *)
(***************************************************************************)
RECURSIVE Pow2(_)
Pow2(n) == IF n = 0 THEN 1 ELSE 2 * Pow2(n - 1)

\* 2^n modulo 100; from n = 2 on the residues repeat every 20 steps
RECURSIVE Pow2Mod100(_)
Pow2Mod100(n) ==
    IF n = 0 THEN 1
    ELSE IF n > 21 THEN Pow2Mod100(n - 20)
    ELSE (2 * Pow2Mod100(n - 1)) % 100

NumNeg(x) == [h |-> 0 - x.h, e |-> 0 - x.e]
NumLess(x, y) == x.h < y.h \/ (x.h = y.h /\ x.e < y.e)
NumZero == [h |-> 0, e |-> 0]

\* j with 2^-j <= x < 2^-(j-1), for a positive x of at least 0.04
BinadeOf(x) ==
    IF x.h > 100 \/ (x.h = 100 /\ x.e >= 0) THEN 0
    ELSE IF x.h > 50 \/ (x.h = 50 /\ x.e >= 0) THEN 1
    ELSE IF x.h > 25 \/ (x.h = 25 /\ x.e >= 0) THEN 2
    ELSE IF x.h >= 13 THEN 3
    ELSE IF x.h >= 7 THEN 4
    ELSE 5

\* the distance between neighbouring doubles in binade j, in units of 1/(100 * 2^60)
UlpOf(j) == 100 * Pow2(8 - j)

\* x modulo m, for m = 100 * 2^p
NumMod(x, p) == (Pow2(p) * ((x.h * Pow2Mod100(60 - p)) % 100) + x.e) % (100 * Pow2(p))

\* a positive x rounded to the nearest double, ties to the even significand
RoundPositive(x) ==
    LET j == BinadeOf(x)
        ulp == UlpOf(j)
        r2 == NumMod(x, 9 - j)
        r == r2 % ulp
        down == [x EXCEPT !.e = @ - r]
        up == [x EXCEPT !.e = @ + ulp - r]
    IN  IF x.h = 0 THEN x
        ELSE IF 2 * r < ulp THEN down
        ELSE IF 2 * r > ulp THEN up
        ELSE IF r2 < ulp THEN down ELSE up

RoundToDouble(x) ==
    IF NumLess(x, NumZero) THEN NumNeg(RoundPositive(NumNeg(x))) ELSE RoundPositive(x)

\* the number a decimal literal with h hundredths denotes
Double(h) == RoundToDouble([h |-> h, e |-> 0])

\* x + y and x - y of two numbers
NumAdd(x, y) == RoundToDouble([h |-> x.h + y.h, e |-> x.e + y.e])
NumSub(x, y) == NumAdd(x, NumNeg(y))

NumMin(x, y) == IF NumLess(y, x) THEN y ELSE x
NumMax(x, y) == IF NumLess(x, y) THEN y ELSE x
IntMax(a, b) == IF a > b THEN a ELSE b

\* Math.max(0, Math.min(score, 1)) without its bounds
NoClamp(score) == score

\* Math.max(0, Math.min(score, 1))
Clamp(score) == NumMax(NumZero, NumMin(score, Double(100)))

\* countJobDetailKeywords: the number of keywords found and the largest count
uniqueCountOf(keywordCounts) == Cardinality({k \in DOMAIN keywordCounts : keywordCounts[k] > 0})
maxRepetitionsOf(keywordCounts) ==
    IF \A k \in DOMAIN keywordCounts : keywordCounts[k] = 0 THEN 0
    ELSE CHOOSE n \in {keywordCounts[k] : k \in DOMAIN keywordCounts} :
             \A k \in DOMAIN keywordCounts : keywordCounts[k] <= n

\* the hundredths that step k of detectJobListPage adds to the score
\* (negative: subtracts), 0 when the step leaves the score alone
scoreDelta(k, page) ==
    CASE k = 1 -> IF page.applyCount >= 3 THEN 30 ELSE 0
      [] k = 2 -> IF page.jobLinkCount >= 3 THEN 30 ELSE 0
      [] k = 3 -> IF page.repeatedCardCount >= 3 THEN 20 ELSE 0
      [] k = 4 -> IF page.hasPaginationOrResultCount THEN 10 ELSE 0
      [] k = 5 -> IF page.hasSearchOrFilter THEN 10 ELSE 0
      [] k = 6 -> IF maxRepetitionsOf(page.keywordCounts) >= 3 THEN 35
                  ELSE IF uniqueCountOf(page.keywordCounts) >= 3 THEN 0 - 40
                  ELSE IF uniqueCountOf(page.keywordCounts) >= 2 THEN 0 - 30
                  ELSE IF uniqueCountOf(page.keywordCounts) >= 1 THEN 0 - 15
                  ELSE 0

\* `score += 0.3`, `score -= 0.4`, ...
addToScore(score, delta) ==
    IF delta > 0 THEN NumAdd(score, Double(delta))
    ELSE IF delta < 0 THEN NumSub(score, Double(0 - delta))
    ELSE score

\* the count step k puts into estimatedJobs
countOfStep(k, page) ==
    CASE k = 1 -> page.applyCount
      [] k = 2 -> page.jobLinkCount
      [] k = 3 -> page.repeatedCardCount
      [] OTHER -> 0

\* `estimatedJobs = Math.max(estimatedJobs, count)` of the steps 1 to 3
estimatedJobsAfter(k, page, estimatedJobs) ==
    IF countOfStep(k, page) >= 3 THEN IntMax(estimatedJobs, countOfStep(k, page))
    ELSE estimatedJobs

\* largest count of one listing signal tried
MaxCount == 3

\* the detail keywords tried
DetailKeywords == {"responsibilities", "requirements", "benefits"}

\* the counts tried for the apply, job-link and card signals
SignalCounts == {0, MaxCount}

ListingPages ==
    [applyCount : SignalCounts, jobLinkCount : SignalCounts, repeatedCardCount : SignalCounts,
     hasPaginationOrResultCount : BOOLEAN, hasSearchOrFilter : BOOLEAN,
     keywordCounts : [DetailKeywords -> {0, 1, MaxCount}]]

InitListing ==
    /\ PureInit
    /\ arg \in ListingPages

\* `let score = 0; let estimatedJobs = 0;`
DetectJobListPageCall ==
    /\ ret = NullRec
    /\ ret' = [step |-> 0, score |-> NumZero, estimatedJobs |-> 0]
    /\ UNCHANGED <<arg, PureFrame>>

\* the next of the six scoring steps
DetectJobListPageStep ==
    /\ "step" \in DOMAIN ret
    /\ ret.step < 6
    /\ ret' = [step |-> ret.step + 1,
               score |-> addToScore(ret.score, scoreDelta(ret.step + 1, arg)),
               estimatedJobs |-> estimatedJobsAfter(ret.step + 1, arg, ret.estimatedJobs)]
    /\ UNCHANGED <<arg, PureFrame>>

\* the clamp and the returned JobListDetection
DetectJobListPageReturn ==
    /\ "step" \in DOMAIN ret
    /\ ret.step = 6
    /\ ret' = [is_job_list_page |-> ~NumLess(Clamp(ret.score), Double(40)),
               confidence |-> Clamp(ret.score),
               estimated_job_count |-> ret.estimatedJobs,
               score |-> ret.score]
    /\ UNCHANGED <<arg, PureFrame>>

NextListing ==
    \/ DetectJobListPageCall
    \/ DetectJobListPageStep
    \/ DetectJobListPageReturn

SpecListing == InitListing /\ [][NextListing]_vars


(***************************************************************************)
(* findLabel                                                                *)
(***************************************************************************)
\* String.prototype.includes
Includes(s, sub) ==
    \E i \in 0..(Len(s) - Len(sub)) : SubSeq(s, i + 1, i + Len(sub)) = sub

\* .replace(/\s+/g, ' ')
RECURSIVE CollapseSpaces(_)
CollapseSpaces(s) ==
    IF s = <<>> THEN <<>>
    ELSE IF Head(s) = " " THEN <<" ">> \o CollapseSpaces(TrimStart(s))
    ELSE <<Head(s)>> \o CollapseSpaces(Tail(s))

\* .replace(/\s*:\s*$/, ''): a colon that only white space follows goes, with
\* the white space around it
RemoveTrailingColon(s) ==
    IF TrimEnd(s) # <<>> /\ TrimEnd(s)[Len(TrimEnd(s))] = ":"
    THEN TrimEnd(SubSeq(s, 1, Len(TrimEnd(s)) - 1))
    ELSE s

cleanLabelText(text) ==
    Trim(CollapseSpaces(RemoveTrailingColon(SelectSeq(text, LAMBDA c : c # "*"))))

labelKeywords ==
    { <<"n","a","m","e">>,
      <<"e","m","a","i","l">>,
      <<"p","h","o","n","e">>,
      <<"a","d","d","r","e","s","s">>,
      <<"c","i","t","y">>,
      <<"s","t","a","t","e">>,
      <<"z","i","p">>,
      <<"c","o","u","n","t","r","y">>,
      <<"f","i","r","s","t">>,
      <<"l","a","s","t">>,
      <<"m","i","d","d","l","e">>,
      <<"d","a","t","e">>,
      <<"b","i","r","t","h">>,
      <<"r","e","s","u","m","e">>,
      <<"c","v">>,
      <<"c","o","v","e","r">>,
      <<"s","a","l","a","r","y">>,
      <<"l","i","n","k","e","d","i","n">>,
      <<"w","e","b","s","i","t","e">>,
      <<"p","o","r","t","f","o","l","i","o">>,
      <<"c","o","m","p","a","n","y">>,
      <<"t","i","t","l","e">>,
      <<"g","e","n","d","e","r">>,
      <<"v","e","t","e","r","a","n">>,
      <<"d","i","s","a","b","i","l","i","t","y">>,
      <<"a","u","t","h","o","r","i","z","a","t","i","o","n">>,
      <<"s","p","o","n","s","o","r">>,
      <<"e","x","p","e","r","i","e","n","c","e">>,
      <<"e","d","u","c","a","t","i","o","n">>,
      <<"s","k","i","l","l","s">>,
      <<"m","e","s","s","a","g","e">>,
      <<"c","o","m","m","e","n","t","s">>,
      <<"n","o","t","e","s">> }

isLabelLike(text) ==
    LET normalized == Trim(ToLowerCase(text))
    IN  \/ normalized # <<>> /\ normalized[Len(normalized)] = ":"
        \/ \E keyword \in labelKeywords : Includes(normalized, keyword)

\* .replace(/^(data-|field-)/i, '')
RemovePrefix(name) ==
    IF Len(name) >= 5 /\ ToLowerCase(SubSeq(name, 1, 5)) = <<"d","a","t","a","-">>
    THEN SubSeq(name, 6, Len(name))
    ELSE IF Len(name) >= 6 /\ ToLowerCase(SubSeq(name, 1, 6)) = <<"f","i","e","l","d","-">>
    THEN SubSeq(name, 7, Len(name))
    ELSE name

\* .replace(/([A-Z])/g, ' $1')
RECURSIVE SpaceBeforeCapitals(_)
SpaceBeforeCapitals(s) ==
    IF s = <<>> THEN <<>>
    ELSE IF IndexOf(Upper, Head(s)) > 0 THEN <<" ", Head(s)>> \o SpaceBeforeCapitals(Tail(s))
    ELSE <<Head(s)>> \o SpaceBeforeCapitals(Tail(s))

\* .replace(/[_-]/g, ' ')
SeparatorsToSpaces(s) == [i \in DOMAIN s |-> IF s[i] \in {"_", "-"} THEN " " ELSE s[i]]

UpperOf(c) == IF IndexOf(Lower, c) > 0 THEN Upper[IndexOf(Lower, c)] ELSE c

\* word.charAt(0).toUpperCase() + word.slice(1).toLowerCase()
Capitalize(word) ==
    IF word = <<>> THEN <<>> ELSE <<UpperOf(Head(word))>> \o ToLowerCase(Tail(word))

formatNameAsLabel(name) ==
    LET words == Split(Trim(CollapseSpaces(SeparatorsToSpaces(
                     SpaceBeforeCapitals(RemovePrefix(name))))), " ")
    IN  Join([i \in DOMAIN words |-> Capitalize(words[i])], <<" ">>)

\* the ten steps of findLabel.  The element carries its attributes and what
\* the document answers to the look-ups of steps 2 to 7.
findLabel(element) ==
    IF Truthy(element.ariaLabel) /\ Trim(element.ariaLabel) # <<>>
        THEN cleanLabelText(element.ariaLabel)
    ELSE IF Truthy(element.labelledByText) THEN cleanLabelText(element.labelledByText)
    ELSE IF Truthy(element.describedByText) /\ Trim(element.describedByText) # <<>>
        THEN cleanLabelText(element.describedByText)
    ELSE IF element.id # "" /\ Truthy(element.labelForText) /\ Trim(element.labelForText) # <<>>
        THEN cleanLabelText(element.labelForText)
    ELSE IF Truthy(element.parentLabelText) /\ Trim(element.parentLabelText) # <<>>
        THEN cleanLabelText(Trim(element.parentLabelText))
    ELSE IF Truthy(element.precedingLabel) THEN cleanLabelText(element.precedingLabel)
    ELSE IF Truthy(element.containerLabel) THEN cleanLabelText(element.containerLabel)
    ELSE IF Truthy(element.dataLabel) /\ isLabelLike(element.dataLabel)
        THEN formatNameAsLabel(element.dataLabel)
    ELSE IF Truthy(element.title) /\ Trim(element.title) # <<>>
        THEN cleanLabelText(element.title)
    ELSE IF Truthy(element.name) THEN formatNameAsLabel(element.name)
    ELSE IF Truthy(element.placeholder) THEN cleanLabelText(element.placeholder)
    ELSE <<>>

\* the controls tried: every attribute and every look-up absent or present
LabelledElements ==
    [ariaLabel : {Null, <<"E","m","a","i","l"," ","*">>},
     labelledByText : {Null, <<"W","o","r","k"," ","e","m","a","i","l">>},
     describedByText : {Null, <<"P","h","o","n","e",":">>},
     id : {"", "f1"},
     labelForText : {Null, <<" "," ","C","i","t","y"," "," ">>},
     parentLabelText : {Null},
     precedingLabel : {Null, <<"C","o","u","n","t","r","y">>},
     containerLabel : {Null},
     dataLabel : {Null, <<"f","i","e","l","d","-","l","a","s","t","N","a","m","e">>, <<"q","7">>},
     title : {Null, <<"Y","o","u","r"," ","t","i","t","l","e"," ",":">>},
     name : {Null, <<"f","i","r","s","t","_","n","a","m","e">>, <<"e","m","a","i","l","A","d","d","r","e","s","s">>},
     placeholder : {Null, <<"E","n","t","e","r"," ","y","o","u","r"," ","f","i","r","s","t"," ","n","a","m","e">>}]

InitLabel ==
    /\ PureInit
    /\ arg \in [element : LabelledElements]

FindLabelCall ==
    /\ ret = NullRec
    /\ ret' = [label |-> findLabel(arg.element)]
    /\ UNCHANGED <<arg, PureFrame>>

SpecLabel == InitLabel /\ [][FindLabelCall]_vars


(***************************************************************************)
(* The background's generation job: AUTOFILL_REQUEST and                    *)
(* AUTOFILL_FORCE_APPLY, pollJobResult, and the notification of the tab     *)
(***************************************************************************)
\* pollJobResult's default parameters
intervalMsDefault == 15000
maxAttemptsDefault == 8

\* the message handled, and the parameters pollJobResult runs with
JobArgs ==
    [entry : {"AUTOFILL_REQUEST", "AUTOFILL_FORCE_APPLY"},
     intervalMs : {intervalMsDefault},
     maxAttempts : {1, 2, maxAttemptsDefault}]

\* what getCompletionResult gives: a rejection, a result without a numeric
\* overall_match, or a finished result with or without generated_content
PollOutcomes ==
    {[kind |-> "error"]} \cup
    {[kind |-> "result", overall_match |-> "undefined", generated_content |-> NullRec]} \cup
    {[kind |-> "result", overall_match |-> "number", generated_content |-> g] :
        g \in {NullRec} \cup [resume : GeneratedItems("resume"),
                              cover_letter : GeneratedItems("f1")]}

JobFrame == <<now, ticks, scans, calls, sessions, spaDispatch, data, pc, currentSessionId,
              parentSessionId, dispatchResponse, call, arg, ret, retry, autofill>>

InitJob ==
    /\ PureInit
    /\ arg \in JobArgs

\* `while (attempts <= maxAttempts)`
WhileAttemptsLeftOrEqual(attempts, maxAttempts) == attempts <= maxAttempts

\* `while (attempts < maxAttempts)`
WhileAttemptsLeft(attempts, maxAttempts) == attempts < maxAttempts

\* every handler awaits the delivery of JOB_COMPLETED
DeliveryAwaitedAlways(entry) == TRUE

\* AUTOFILL_FORCE_APPLY awaits tabs.sendMessage(JOB_COMPLETED), so that a failed
\* delivery rejects the then-callback; AUTOFILL_REQUEST catches it on the spot
DeliveryAwaited(entry) == entry = "AUTOFILL_FORCE_APPLY"

\* the message arrives from a tab; AUTOFILL_FORCE_APPLY answers 'processing'
\* at once, without awaiting forceApply
JobMessage ==
    /\ job = NoCall
    /\ job' = [at |-> IF arg.entry = "AUTOFILL_REQUEST" THEN "initiate" ELSE "forceApply",
               response |-> IF arg.entry = "AUTOFILL_REQUEST" THEN "none" ELSE "processing",
               attempts |-> 0,
               requests |-> <<>>,
               clock |-> 0,
               result |-> NullRec,
               error |-> "none",
               sent |-> <<>>]
    /\ UNCHANGED JobFrame

\* AUTOFILL_REQUEST: initiateAutocomplete, then the reply to the panel; with a
\* job_id pollJobResult is started
InitiateAutocomplete(outcome) ==
    /\ job # NoCall
    /\ job.at = "initiate"
    /\ job' = [job EXCEPT
                 !.at = IF outcome = "job_id" THEN "poll" ELSE "done",
                 !.response = IF outcome = "job_id" THEN "processing"
                              ELSE IF outcome = "no job_id" THEN "complete"
                              ELSE "error"]
    /\ UNCHANGED JobFrame

\* forceApply: the POST, then pollJobResult(newJobId)
ForceApplyPost(ok) ==
    /\ job # NoCall
    /\ job.at = "forceApply"
    /\ job' = IF ok THEN [job EXCEPT !.at = "poll"]
              ELSE [job EXCEPT !.at = "rejected", !.error = "Request failed"]
    /\ UNCHANGED JobFrame

\* one turn of the loop up to `attempts++`: the request, and the return when
\* overall_match is a number; an error is swallowed
PollRequest(outcome) ==
    /\ job # NoCall
    /\ job.at = "poll"
    /\ WhileAttemptsLeft(job.attempts, arg.maxAttempts)
    /\ job' = IF outcome.kind = "result" /\ outcome.overall_match = "number"
              THEN [job EXCEPT !.requests = Append(@, job.clock),
                               !.at = "resolved", !.result = outcome]
              ELSE [job EXCEPT !.requests = Append(@, job.clock),
                               !.attempts = @ + 1, !.at = "wait"]
    /\ UNCHANGED JobFrame

\* `await new Promise(resolve => setTimeout(resolve, intervalMs))`
PollWait ==
    /\ job # NoCall
    /\ job.at = "wait"
    /\ job' = [job EXCEPT !.clock = @ + arg.intervalMs, !.at = "poll"]
    /\ UNCHANGED JobFrame

\* the loop ends: throw new Error('Timeout waiting for job completion')
PollTimeout ==
    /\ job # NoCall
    /\ job.at = "poll"
    /\ ~WhileAttemptsLeft(job.attempts, arg.maxAttempts)
    /\ job' = [job EXCEPT !.at = "rejected", !.error = "Timeout waiting for job completion"]
    /\ UNCHANGED JobFrame

\* the then-callback: the generated items are stored, then the tab is told
\* JOB_COMPLETED.  Reading result.generated_content.resume of a result without
\* generated_content throws, and so may addGeneratedItem.
PollThen(storeThrows, deliveryFails) ==
    /\ job # NoCall
    /\ job.at = "resolved"
    /\ job' =
         IF job.result.generated_content = NullRec
         THEN [job EXCEPT !.at = "rejected", !.error = "TypeError"]
         ELSE IF storeThrows /\ (\/ job.result.generated_content.resume # NullRec
                                 \/ job.result.generated_content.cover_letter # NullRec)
         THEN [job EXCEPT !.at = "rejected", !.error = "Storage failed"]
         ELSE IF deliveryFails /\ DeliveryAwaited(arg.entry)
         THEN [job EXCEPT !.sent = Append(@, "JOB_COMPLETED"),
                          !.at = "rejected", !.error = "Delivery failed"]
         ELSE [job EXCEPT !.sent = Append(@, "JOB_COMPLETED"), !.at = "done"]
    /\ UNCHANGED JobFrame

\* the catch-callback: the tab is told JOB_FAILED
PollCatch ==
    /\ job # NoCall
    /\ job.at = "rejected"
    /\ job' = [job EXCEPT !.sent = Append(@, "JOB_FAILED"), !.at = "done"]
    /\ UNCHANGED JobFrame

NextJob ==
    \/ JobMessage
    \/ \E outcome \in {"job_id", "no job_id", "throws"} : InitiateAutocomplete(outcome)
    \/ \E ok \in BOOLEAN : ForceApplyPost(ok)
    \/ \E outcome \in PollOutcomes : PollRequest(outcome)
    \/ PollWait
    \/ PollTimeout
    \/ \E storeThrows \in BOOLEAN, deliveryFails \in BOOLEAN : PollThen(storeThrows, deliveryFails)
    \/ PollCatch

\* timers fire, requests settle (axios times out after 30 s) and promise
\* callbacks run
SpecJob == InitJob /\ [][NextJob]_vars /\ WF_vars(NextJob)


(***************************************************************************)
(* The panel across a URL change while a generation job is under way        *)
(***************************************************************************)
\* URL changes per run
MaxUrlChanges == 1

\* handleUrlChange on a new URL, and the scan it schedules: the autofill
\* state is reset (status 'idle', no autofill data, no job id, no session
\* id), the page shows the controls of the new URL, and the scan result is
\* the new page.  Nothing is told to the background, whose polling goes on.
HandleUrlChange(p, n) ==
    /\ autofill # NoCall
    /\ scans < MaxUrlChanges
    /\ n # data[p]
    /\ scans' = scans + 1
    /\ data' = [data EXCEPT ![p] = n]
    /\ currentSessionId' = [currentSessionId EXCEPT ![p] = Null]
    /\ autofill' = [autofill EXCEPT
                      !.autofillStatus = "idle",
                      !.autofillData = Null,
                      !.jobId = Null,
                      !.form = EmptyForm(n)]
    /\ UNCHANGED <<now, ticks, calls, sessions, spaDispatch, pc, parentSessionId,
                   dispatchResponse, call, arg, ret, retry, job>>

NextUrlChange ==
    \/ NextAutofill
    \/ \E n \in FormPages : HandleUrlChange("t1", n)

SpecUrlChange == InitAutofill /\ [][NextUrlChange]_vars

(***************************************************************************)
(* Properties                                                              *)
(***************************************************************************)
NoDuplicateIds(list) == \A i, j \in DOMAIN list : i # j => list[i].id # list[j].id

\* the four values generateSessionId reads
SameJob(a, b) ==
    /\ a.domain = b.domain
    /\ a.company = b.company
    /\ a.jobTitle = b.jobTitle
    /\ a.jobIdentifier = b.jobIdentifier

\* C1: however the addOrUpdateSession calls of two contexts interleave at
\* their awaits, no two stored sessions share an id, no list about to be
\* written holds an id twice, and a stored session carries the id that
\* generateSessionId gives every scan of the same job (same domain, company,
\* job title and job identifier), so that scan updates it.
C1_UniqueSessionIds ==
    /\ NoDuplicateIds(sessions)
    /\ \A p \in Tabs : call[p].at # "none" => NoDuplicateIds(call[p].list)
    /\ \A i \in DOMAIN sessions, n \in PageNames, withData \in BOOLEAN :
          SameJob(sessions[i], ScanSessions[n, withData])
              => sessions[i].id = SessionIdOf(ScanSessions[n, withData])

\* two calls for the same job are both between their read and their write,
\* or one of them found the session the other stored
C1_Witness ==
    \/ /\ call["t1"].at = "save"
       /\ call["t2"].at = "save"
       /\ SameJob(call["t1"].session, call["t2"].session)
    \/ \E p \in Tabs :
          /\ call[p].at = "save"
          /\ \E i \in DOMAIN sessions : SameJob(sessions[i], call[p].session)
          /\ Len(call[p].list) = Len(sessions)

\* C2: the id of every stored session equals generateSessionId of the
\* domain, company, job title and job identifier the session holds now.
C2_IdMatchesFields ==
    \A i \in DOMAIN sessions :
        sessions[i].id = generateSessionId(sessions[i].domain, sessions[i].company,
                                           sessions[i].jobTitle, sessions[i].jobIdentifier)

\* C3: a dispatch handed to the createSession of one tab is never handed to
\* the createSession of another tab.
C3_DispatchSingleUse ==
    \A p \in Tabs, q \in Tabs :
        (p # q /\ dispatchResponse[p] # NullRec) => dispatchResponse[p] # dispatchResponse[q]

\* the step of tab p that is its SPA_DISPATCH_GET
IsDispatchGet(p) == pc[p] = "get" /\ pc'[p] # "get"

Consumed(p) == dispatchResponse[p] # NullRec /\ pc[p] \in {"fetch", "done"}

IsSessionUpdateData(p) == pc[p] = "update" /\ pc'[p] = "fetch"

C6_LastWriterWins ==
    [][/\ spaDispatch # NullRec => spaDispatch.timestamp = now
       /\ ticks' # ticks =>
             \E p \in Tabs :
                 /\ currentSessionId[p] # Null
                 /\ spaDispatch' = [domain |-> Hostname(p),
                                    sessionId |-> currentSessionId[p],
                                    timestamp |-> now']
       /\ (ticks' = ticks /\ spaDispatch' # spaDispatch) => spaDispatch' = NullRec
       /\ \A p \in Tabs :
             (/\ IsDispatchGet(p)
              /\ spaDispatch # NullRec
              /\ getRootDomain(spaDispatch.domain) = getRootDomain(Hostname(p)))
                 => dispatchResponse'[p] = spaDispatch]_vars

\* the session of the first scan was dispatched twice and the second scan
\* received the second dispatch
C6_Witness ==
    /\ scans = 2
    /\ ticks = 2
    /\ \E p \in Tabs :
          /\ dispatchResponse[p] # NullRec
          /\ dispatchResponse[p].timestamp = 2 * ClickGap

\* C7: no stored session is the session of a sessionless scan or of a
\* job-listing scan.
C7_NoSessionForExcludedScans ==
    \A i \in DOMAIN sessions, n \in PageNames :
        (isJobListPage(Pages[n]) \/ isSessionless(Pages[n]))
            => sessions[i].id # SessionIdOf(ScanSessions[n, FALSE])

Expired(s, t) == t - s.lastAccessedAt > SESSION_EXPIRY_MS

\* C8: a stored session whose age has exceeded the TTL is never refreshed:
\* no step leaves the same session (same id, same createdAt) in the store
\* with another lastAccessedAt.
C8_ExpiredIsTerminal ==
    [][\A i \in DOMAIN sessions :
         Expired(sessions[i], now) =>
             \A j \in DOMAIN sessions' :
                 (/\ sessions'[j].id = sessions[i].id
                  /\ sessions'[j].createdAt = sessions[i].createdAt)
                     => sessions'[j].lastAccessedAt = sessions[i].lastAccessedAt]_vars

\* C9: the reads return no session older than the TTL and return every
\* stored session whose age does not exceed the TTL, and the store they
\* leave holds no session older than the TTL.
C9_ReadsReturnLiveSessions ==
    LET all == getAllSessions(sessions, now)
    IN  /\ \A j \in DOMAIN all : ~Expired(all[j], now)
        /\ \A i \in DOMAIN sessions :
              ~Expired(sessions[i], now) =>
                  /\ \E j \in DOMAIN all : all[j] = sessions[i]
                  /\ getSession(sessions, sessions[i].id, now).session # NullRec
                  /\ getSessionByDomain(sessions, sessions[i].domain, now).session # NullRec
                  /\ getCurrentSession(sessions, now).session # NullRec

\* C10: the stored list is in non-increasing lastAccessedAt order.
C10_MostRecentlyUsedOrder ==
    \A i, j \in DOMAIN sessions :
        i < j => sessions[i].lastAccessedAt >= sessions[j].lastAccessedAt

(***************************************************************************)
(* C11: after any sequence and interleaving of addOrUpdateSession calls    *)
(* and expiry sweeps the stored list holds at most MAX_SESSIONS sessions.  *)
(***************************************************************************)
C11_AtMostMaxSessions == Len(sessions) <= MAX_SESSIONS

\* the store is at its capacity and the oldest stored session was dropped
\* to make room, with no session expired
C11_Witness ==
    /\ Len(sessions) = MAX_SESSIONS
    /\ now = 0
    /\ FullStore[MAX_SESSIONS - 1].id \notin StoredIds
    /\ \E i \in DOMAIN sessions : sessions[i].id = SessionIdOf(ScanSessions["apply", TRUE])

\* the set of field ids of a list of form fields
FieldIds(formFields) == {formFields[i] : i \in DOMAIN formFields}

NoDuplicateFields(formFields) ==
    \A i, j \in DOMAIN formFields : i # j => formFields[i] # formFields[j]

\* the step merges the scan `incoming` into the session stored at index i
IsMergeInto(i, incoming) ==
    \/ /\ arg'.op = "addSession"
       /\ SessionIdOf(arg'.session) = sessions[i].id
       /\ incoming = [company |-> arg'.session.company,
                      jobTitle |-> arg'.session.jobTitle,
                      jobDescription |-> arg'.session.jobDescription,
                      formFields |-> arg'.session.formFields]
    \/ /\ arg'.op = "updateSessionPageData"
       /\ arg'.sessionId = sessions[i].id
       /\ incoming = [company |-> FirstOf(Pages[arg'.scannedData].proposed_company_names),
                      jobTitle |-> FirstOf(Pages[arg'.scannedData].proposed_job_titles),
                      jobDescription |-> FirstOf(Pages[arg'.scannedData].proposed_job_descriptions),
                      formFields |-> Pages[arg'.scannedData].form_fields]

\* the scans a merge can carry, as the fields both merges read
Incoming ==
    {[company |-> ScanSessions[n, TRUE].company,
      jobTitle |-> ScanSessions[n, TRUE].jobTitle,
      jobDescription |-> ScanSessions[n, TRUE].jobDescription,
      formFields |-> ScanSessions[n, TRUE].formFields] : n \in StorePages}

\* the stored session of the given id after the step
After(id) == sessions'[FindIndexById(sessions', id)]

(***************************************************************************)
(* C12: merging a scan into an existing session yields as formFields the   *)
(* union by field id of the stored and the incoming fields: no stored      *)
(* field is lost and no id occurs twice (so that merging the same scan     *)
(* again changes nothing).                                                 *)
(***************************************************************************)
C12_MergeIsUnionOfFields ==
    [][\A i \in DOMAIN sessions, incoming \in Incoming :
          IsMergeInto(i, incoming) =>
             /\ FieldIds(After(sessions[i].id).formFields)
                  = FieldIds(sessions[i].formFields) \cup FieldIds(incoming.formFields)
             /\ NoDuplicateFields(After(sessions[i].id).formFields)]_vars

(***************************************************************************)
(* C13: when a later scan is merged into an existing session, by           *)
(* addOrUpdateSession or by updateSessionPageData, company, jobTitle and   *)
(* jobDescription take the incoming value when it is non-empty and keep    *)
(* the stored value only when the incoming one is empty or null.           *)
(***************************************************************************)
C13_IncomingMetadataWins ==
    [][\A i \in DOMAIN sessions, incoming \in Incoming :
          IsMergeInto(i, incoming) =>
             LET before == sessions[i]
                 after  == After(sessions[i].id)
             IN  /\ after.company = IF Truthy(incoming.company) THEN incoming.company
                                    ELSE before.company
                 /\ after.jobTitle = IF Truthy(incoming.jobTitle) THEN incoming.jobTitle
                                     ELSE before.jobTitle
                 /\ after.jobDescription = IF Truthy(incoming.jobDescription)
                                           THEN incoming.jobDescription
                                           ELSE before.jobDescription]_vars

(***************************************************************************)
(* C14: every stored session of a qualifying page has a non-empty          *)
(* pageUrls whose first entry is the URL of the scan that created it,      *)
(* whether the automatic step or the Autofill action created it (stated    *)
(* when no createSession is under way).                                    *)
(***************************************************************************)
C14_PageUrlsStartWithScanUrl ==
    Quiescent =>
        \A i \in DOMAIN sessions, n \in TabPages :
            sessions[i].id = SessionIdOf(ScanSessions[n, TRUE]) =>
                /\ sessions[i].pageUrls # <<>>
                /\ sessions[i].pageUrls[1] = Pages[n].page_url

\* the labels of a hostname, compared without regard to case
Labels(hostname) == Split(ToLowerCase(hostname), ".")

\* the last two labels are equal and, when they form a two-part public
\* suffix, the last three labels are equal
SameRegistrableDomain(a, b) ==
    /\ LastN(Labels(a), 2) = LastN(Labels(b), 2)
    /\ Join(LastN(Labels(a), 2), <<".">>) \in twoPartTlds
          => LastN(Labels(a), 3) = LastN(Labels(b), 3)

(***************************************************************************)
(* C15: doDomainsMatch(a, b) is true exactly when the last two labels of   *)
(* a and b are equal, except when these form a two-part public suffix:     *)
(* then the last three labels are compared.  jobs.indeed.com matches       *)
(* indeed.com, foo.co.uk does not match bar.co.uk, a.company.co.uk         *)
(* matches company.co.uk.                                                  *)
(***************************************************************************)
C15_DomainsMatchOnRegistrableDomain ==
    ret # NullRec =>
       /\ ret.value = SameRegistrableDomain(arg.domain1, arg.domain2)
       /\ (arg.domain1 = <<"j","o","b","s",".","i","n","d","e","e","d",".","c","o","m">> /\ arg.domain2 = <<"i","n","d","e","e","d",".","c","o","m">>) => ret.value
       /\ (arg.domain1 = <<"f","o","o",".","c","o",".","u","k">> /\ arg.domain2 = <<"b","a","r",".","c","o",".","u","k">>) => ~ret.value
       /\ (arg.domain1 = <<"a",".","c","o","m","p","a","n","y",".","c","o",".","u","k">> /\ arg.domain2 = <<"c","o","m","p","a","n","y",".","c","o",".","u","k">>) => ret.value

\* a sub-domain under a two-part suffix was matched with its registrable domain
C15_Witness ==
    /\ ret = [value |-> TRUE]
    /\ arg.domain1 = <<"a",".","c","o","m","p","a","n","y",".","c","o",".","u","k">>
    /\ arg.domain2 = <<"c","o","m","p","a","n","y",".","c","o",".","u","k">>

\* the number of occurrences of a pair in a query
CountOf(search, kv) == Cardinality({i \in DOMAIN search : search[i] = kv})

\* the two queries hold the same parameters, in any order
SameParams(s1, s2) == \A kv \in Params : CountOf(s1, kv) = CountOf(s2, kv)

(***************************************************************************)
(* C16: extractJobIdentifier returns the same identifier for two URLs      *)
(* that differ only in the order of their query parameters, and different  *)
(* identifiers for two URLs of the same path and fragment whose query      *)
(* parameters differ.                                                      *)
(***************************************************************************)
C16_IdentifierUpToParamOrder ==
    (ret # NullRec /\ arg.url1.pathname = arg.url2.pathname /\ arg.url1.hash = arg.url2.hash) =>
        (ret.value1 = ret.value2) = SameParams(arg.url1.search, arg.url2.search)

\* what holds of scanWithRetry at every moment of a run
RetryBounded ==
    retry # NoCall =>
       \* at most 1 + maxRetries scans, separated by the fixed delay
       /\ Len(retry.results) <= 1 + arg.maxRetries
       /\ now = arg.delayMs * (IF retry.at = "delay" THEN Len(retry.results)
                                ELSE Len(retry.results) - 1)
       \* every scan before the last one found nothing
       /\ \A k \in 1..(Len(retry.results) - 1) : ~FoundFields(retry.results[k])
       \* it goes on only while the last scan found nothing
       /\ retry.at # "returned" => ~FoundFields(retry.results[Len(retry.results)])
       /\ retry.at = "returned" =>
             /\ ret = [value |-> retry.results[Len(retry.results)]]
             /\ (\E k \in DOMAIN retry.results : FoundFields(retry.results[k]))
                   => FoundFields(ret.value)
             /\ ~FoundFields(ret.value) => Len(retry.results) = 1 + arg.maxRetries

AppliedToForm(autofillFields) ==
    \A i \in DOMAIN autofillFields :
        (autofillFields[i].field_id \in DOMAIN autofill.form /\ autofillFields[i].field_value # Null)
            => autofill.form[autofillFields[i].field_id] = autofillFields[i].field_value

(***************************************************************************)
(* C17: once the panel has handled the reply to an autofill request, the   *)
(* autofill_data that initiate returned are applied to the page's form     *)
(* fields, both without a job_id and with a job_id (asynchronous           *)
(* generation).                                                            *)
(***************************************************************************)
C17_AutofillDataAlwaysApplied ==
    (autofill # NoCall /\ autofill.at \in {"polling", "done"} /\ autofill.response # NullRec)
        => AppliedToForm(autofill.response.autofill_data)

\* the empty value of each session message's reply
DefaultReply(message) ==
    IF message.type = "SESSION_LIST" THEN [sessions |-> <<>>] ELSE [session |-> NullRec]

(***************************************************************************)
(* C19: when the storage read or write of a session operation throws, the  *)
(* caller of the operation gets an empty/default value and no failure.     *)
(***************************************************************************)
C19_StorageFailureGivesDefault ==
    (arg # NullRec /\ arg.fault # "none") =>
        /\ "error" \notin DOMAIN ret
        /\ ret = DefaultReply(arg.message)

(***************************************************************************)
(* C20: two scans of an unchanged page give every control the same field   *)
(* id, also the controls without an id attribute and the ARIA /            *)
(* contenteditable pseudo-controls.                                        *)
(***************************************************************************)
C20_FieldIdsStableAcrossScans ==
    (ret # NullRec /\ Len(ret.results) >= 2) =>
        \A a, b \in DOMAIN ret.results :
            /\ Len(ret.results[a]) = Len(ret.results[b])
            /\ \A k \in DOMAIN ret.results[a] :
                  ret.results[a][k].field_id = ret.results[b][k].field_id

\* the lower-cased text, aria-label and title of the one element scanned
ScannedText == combinedTextOf(arg.elements[1], getButtonText(arg.elements[1]))

(***************************************************************************)
(* C21: classifyButton returns the first tier that matches, in the order   *)
(* submit, previous, navigation: an element matching a submit pattern is   *)
(* SUBMIT whatever else it matches ("Submit and Continue" is SUBMIT), one  *)
(* matching previous but not submit is PREVIOUS, one matching only         *)
(* navigation is NAVIGATION, and one matching no tier gets no button.      *)
(***************************************************************************)
C21_FirstMatchingTierWins ==
    ret # NullRec =>
       LET submit   == TestAny(SUBMIT_PATTERNS, ScannedText)
           previous == TestAny(PREVIOUS_PATTERNS, ScannedText)
           nav      == TestAny(NAVIGATION_PATTERNS, ScannedText)
       IN  /\ ~(submit \/ previous \/ nav) <=> ret.buttons = <<>>
           /\ submit => ret.buttons[1].button_type = "SUBMIT"
           /\ (previous /\ ~submit) => ret.buttons[1].button_type = "PREVIOUS"
           /\ (nav /\ ~previous /\ ~submit) => ret.buttons[1].button_type = "NAVIGATION"
           /\ arg.elements[1].textContent = <<"S","u","b","m","i","t"," ","a","n","d"," ","C","o","n","t","i","n","u","e">> => ret.buttons[1].button_type = "SUBMIT"

\* "Submit and Continue", which also matches a navigation pattern, was
\* classified SUBMIT
C21_Witness ==
    /\ ret # NullRec
    /\ arg.elements[1].textContent = <<"S","u","b","m","i","t"," ","a","n","d"," ","C","o","n","t","i","n","u","e">>
    /\ TestAny(NAVIGATION_PATTERNS, ScannedText)
    /\ ret.buttons # <<>>
    /\ ret.buttons[1].button_type = "SUBMIT"


\* the page has a control the detector types PREVIOUS
HasPreviousControl ==
    \E i \in DOMAIN detectActionButtons(arg.elements) :
        detectActionButtons(arg.elements)[i].button_type = "PREVIOUS"

\* C22: the multi-page flag is true exactly when the page has a previous-style
\* control (alone or with a next-style one), step-indicator markup, or a
\* "step X of Y" text; a page with navigation-style controls only and no step
\* indicator is not multi-page
C22_MultiPageExactlyOnPreviousOrStep ==
    ("isMultiPage" \in DOMAIN ret) =>
        (ret.isMultiPage <=> (HasPreviousControl \/ arg.stepIndicators \/ arg.stepText))


\* scanAllFrames returned an aggregated scan
AggregatedScan == "value" \in DOMAIN ret /\ "frames" \in DOMAIN arg /\ ret.value # NullRec

\* the frames that answered with a scan, in the order asked
RespondingFrames == SelectSeq(arg.frames, LAMBDA frame : frame.response.kind = "data")

\* the aggregated scan carries the page-level metadata of this frame's scan
MetadataOf(frame) ==
    /\ ret.value.page_url = frame.response.data.page_url
    /\ ret.value.page_title = frame.response.data.page_title
    /\ ret.value.proposed_company_names = frame.response.data.proposed_company_names
    /\ ret.value.proposed_job_titles = frame.response.data.proposed_job_titles
    /\ ret.value.proposed_job_descriptions = frame.response.data.proposed_job_descriptions

\* C23: the aggregated scan takes url, title and the company, title and
\* description candidates from the top frame when it responded, otherwise from
\* the first frame that returned data
C23_MetadataFromTopOrFirstFrame ==
    AggregatedScan =>
        /\ RespondingFrames # <<>>
        /\ IF \E i \in DOMAIN RespondingFrames : RespondingFrames[i].frameId = 0
           THEN \A i \in DOMAIN RespondingFrames :
                    RespondingFrames[i].frameId = 0 => MetadataOf(RespondingFrames[i])
           ELSE MetadataOf(RespondingFrames[1])

\* C24: the aggregated scan is flagged multi-page whenever some frame's scan
\* holds a PREVIOUS button, also when button ids of different frames coincide
C24_MultiPageWhenAnyFrameHasPrevious ==
    AggregatedScan =>
        ((\E i \in DOMAIN RespondingFrames :
             \E j \in DOMAIN RespondingFrames[i].response.data.action_buttons :
                 RespondingFrames[i].response.data.action_buttons[j].button_type = "PREVIOUS")
         => ret.value.form_metadata.detected_multi_page)


\* detectJobListPage returned
ListDetected == "confidence" \in DOMAIN ret

\* the number x is at least h hundredths, as real numbers
AtLeastHundredths(x, h) == x.h > h \/ (x.h = h /\ x.e >= 0)

\* C25: for every combination of listing signals the confidence lies in
\* [0, 1], and is_job_list_page is true exactly when the confidence is at
\* least 0.4
C25_ConfidenceInRangeAndThreshold ==
    ListDetected =>
        /\ AtLeastHundredths(ret.confidence, 0)
        /\ ~NumLess([h |-> 100, e |-> 0], ret.confidence)
        /\ ret.is_job_list_page <=> AtLeastHundredths(ret.confidence, 40)

\* the additions and the subtraction left the score one rounding step under
\* 0.4, and the page is not taken for a listing
C25_Witness ==
    /\ ListDetected
    /\ ret.confidence.h = 40
    /\ ret.confidence.e < 0
    /\ ~ret.is_job_list_page


\* none of the steps before the title attribute gives a label
OnlyLastTier ==
    /\ "element" \in DOMAIN arg
    /\ "label" \in DOMAIN ret
    /\ ~Truthy(arg.element.ariaLabel)
    /\ ~Truthy(arg.element.labelledByText)
    /\ ~Truthy(arg.element.describedByText)
    /\ ~(arg.element.id # "" /\ Truthy(arg.element.labelForText))
    /\ ~Truthy(arg.element.parentLabelText)
    /\ ~Truthy(arg.element.precedingLabel)
    /\ ~Truthy(arg.element.containerLabel)
    /\ ~Truthy(arg.element.dataLabel)

\* C26: when no earlier strategy gives a label, findLabel returns the title
\* attribute, else the placeholder, else the titleized name: a control with
\* only a placeholder and a name gets the placeholder, and a control with only
\* name=first_name gets "First Name"
C26_TitleThenPlaceholderThenName ==
    OnlyLastTier =>
        ret.label =
            IF Truthy(arg.element.title) THEN cleanLabelText(arg.element.title)
            ELSE IF Truthy(arg.element.placeholder) THEN cleanLabelText(arg.element.placeholder)
            ELSE IF Truthy(arg.element.name) THEN formatNameAsLabel(arg.element.name)
            ELSE <<>>


\* at most maxAttempts result requests, intervalMs apart; a result is returned
\* only with a numeric overall_match; the timeout comes after the last attempt
PollBounded ==
    job # NoCall =>
        /\ Len(job.requests) <= arg.maxAttempts
        /\ \A i \in 1..(Len(job.requests) - 1) :
               job.requests[i + 1] - job.requests[i] >= arg.intervalMs
        /\ job.result # NullRec => job.result.overall_match = "number"
        /\ job.error = "Timeout waiting for job completion" =>
               /\ job.attempts = arg.maxAttempts
               /\ Len(job.requests) = arg.maxAttempts

JobStarted ==
    job # NoCall /\ arg.entry = "AUTOFILL_REQUEST" /\ job.response = "processing"

(***************************************************************************)
(* C28: for an AUTOFILL_REQUEST from a tab whose initiate response carries  *)
(* a job_id the background eventually sends the tab exactly one terminal    *)
(* notification, JOB_COMPLETED or JOB_FAILED: never both and never none,    *)
(* also when storing a generated item fails.                                *)
(***************************************************************************)
C28_ExactlyOneTerminalNotification ==
    /\ [](JobStarted => Len(job.sent) <= 1)
    /\ [](JobStarted => <>(job.at = "done" /\ Len(job.sent) = 1))

\* the job finished, storing its resume failed, and the tab was told JOB_FAILED
C28_Witness ==
    /\ JobStarted
    /\ job.at = "done"
    /\ job.result # NullRec
    /\ job.error = "Storage failed"
    /\ job.sent = <<"JOB_FAILED">>


\* after the step some stored session lists the URL of the scan of tab p,
\* and the panel's current session id names a stored session
ScanRecorded(p) ==
    /\ \E i \in DOMAIN sessions' : \E j \in DOMAIN sessions'[i].pageUrls :
           sessions'[i].pageUrls[j] = Pages[data[p]].page_url
    /\ \E i \in DOMAIN sessions' : sessions'[i].id = currentSessionId'[p]

(***************************************************************************)
(* C29: when createSession finishes for a qualifying scan (its              *)
(* SESSION_UPDATE_DATA or SESSION_ADD has been answered), some stored       *)
(* session lists the scan's URL and the panel's current session id names a  *)
(* stored session, also when the parent named by the consumed dispatch has  *)
(* expired, been evicted or been deleted in the meantime.                   *)
(***************************************************************************)
C29_QualifyingScanIsRecorded ==
    [][\A p \in Tabs :
         (pc[p] \in {"update", "add"} /\ pc'[p] = "fetch") => ScanRecorded(p)]_vars


\* the background polls for a job the panel has forgotten: the URL-change
\* handler has reset the job id since the job was started
JobOfPreviousUrl ==
    autofill # NoCall /\ autofill.at = "polling" /\ autofill.jobId = Null

(***************************************************************************)
(* C30: a JOB_COMPLETED or JOB_FAILED message of a job started on a         *)
(* previous URL, arriving after the URL-change handler has reset the panel, *)
(* changes neither the autofill status of the new page nor any of its       *)
(* fields.                                                                  *)
(***************************************************************************)
C30_StaleJobMessageIgnored ==
    [][(JobOfPreviousUrl /\ autofill'.at = "done") =>
          /\ autofill'.autofillStatus = autofill.autofillStatus
          /\ autofill'.form = autofill.form]_vars

====
